---- MODULE Spec2Model ----
(***************************************************************************)
(* Bracket City benchmark: the puzzle state machine of solve-puzzle.ts     *)
(* (bracket parsers, makeGuess / getHint / revealClue, calculateScore) and *)
(* the tool callbacks of solvePuzzleWithLLM that thread one game state.    *)
(*                                                                         *)
(* A JavaScript string is a sequence of one-character strings; offsets are *)
(* JavaScript's (0-based, end exclusive).                                  *)
(***************************************************************************)
EXTENDS Integers, Sequences, FiniteSets, TLC

\* ------------------------------------------------------------------------
\* Bounds of the model
\* ------------------------------------------------------------------------

\* Tool calls explored per run (the code's own budget is maxSteps).
MaxCalls == 3

\* ------------------------------------------------------------------------
\* JavaScript strings
\* ------------------------------------------------------------------------

\* str.slice(from, to) / str.substring(from, to) for 0 <= from <= to <= length.
Slice(str, from, to) == SubSeq(str, from + 1, to)

\* str.slice(from)
SliceFrom(str, from) == SubSeq(str, from + 1, Len(str))

\* str[i] for 0 <= i < length.
At(str, i) == str[i + 1]

\* White space removed by String.prototype.trim (the characters the model uses).
IsSpace(c) == c \in {" ", "\t", "\n"}

\* String.prototype.toLowerCase on one character.
LowerChar(c) ==
    CASE c = "A" -> "a"
      [] c = "B" -> "b"
      [] c = "C" -> "c"
      [] c = "F" -> "f"
      [] c = "O" -> "o"
      [] c = "P" -> "p"
      [] c = "T" -> "t"
      [] OTHER -> c

toLowerCase(str) == [i \in 1..Len(str) |-> LowerChar(str[i])]

RECURSIVE TrimStart(_)
TrimStart(str) ==
    IF str # <<>> /\ IsSpace(Head(str)) THEN TrimStart(Tail(str)) ELSE str

RECURSIVE TrimEnd(_)
TrimEnd(str) ==
    IF str # <<>> /\ IsSpace(str[Len(str)])
    THEN TrimEnd(SubSeq(str, 1, Len(str) - 1))
    ELSE str

trim(str) == TrimEnd(TrimStart(str))

\* ------------------------------------------------------------------------
\* findActiveClues: the recursive bracket parser
\* ------------------------------------------------------------------------

\* The inner while loop: from i with bracketCount > 0, accumulate innerContent
\* until the count returns to 0 or the string ends.
RECURSIVE InnerScan(_, _, _, _, _)
InnerScan(str, i, bracketCount, hasNestedBrackets, innerContent) ==
    IF i < Len(str) /\ bracketCount > 0
    THEN LET c == At(str, i) IN
         InnerScan(str, i + 1,
                   IF c = "[" THEN bracketCount + 1
                   ELSE IF c = "]" THEN bracketCount - 1
                   ELSE bracketCount,
                   hasNestedBrackets \/ c = "[",
                   Append(innerContent, c))
    ELSE [i |-> i, hasNestedBrackets |-> hasNestedBrackets,
          innerContent |-> innerContent]

\* innerContent.slice(0, -1)
DropLast(str) == SubSeq(str, 1, Len(str) - 1)

\* Variant: the recursion into a nested group passes the offset of the
\* group's '[' instead of the offset of its inner content.
RECURSIVE findCluesFromGroupOffset(_, _, _)
findCluesFromGroupOffset(str, startOffset, i) ==
    IF i >= Len(str) THEN <<>>
    ELSE IF At(str, i) = "["
    THEN LET startIndex == i
             r == InnerScan(str, i + 1, 1, FALSE, <<>>)
             innerContent == DropLast(r.innerContent)
             pushed ==
                 IF ~r.hasNestedBrackets
                 THEN << [start |-> startOffset + startIndex,
                          end |-> startOffset + r.i,
                          text |-> Slice(str, startIndex, r.i),
                          expression |-> innerContent] >>
                 ELSE findCluesFromGroupOffset(innerContent,
                                               startOffset + startIndex, 0)
         IN  pushed \o findCluesFromGroupOffset(str, startOffset, r.i)
    ELSE findCluesFromGroupOffset(str, startOffset, i + 1)

\* Variant: after a nested group the outer scan resumes just inside the
\* group instead of after its closing bracket.
RECURSIVE findCluesFromRescanGroup(_, _, _)
findCluesFromRescanGroup(str, startOffset, i) ==
    IF i >= Len(str) THEN <<>>
    ELSE IF At(str, i) = "["
    THEN LET startIndex == i
             r == InnerScan(str, i + 1, 1, FALSE, <<>>)
             innerContent == DropLast(r.innerContent)
             pushed ==
                 IF ~r.hasNestedBrackets
                 THEN << [start |-> startOffset + startIndex,
                          end |-> startOffset + r.i,
                          text |-> Slice(str, startIndex, r.i),
                          expression |-> innerContent] >>
                 ELSE findCluesFromRescanGroup(innerContent,
                                               startOffset + startIndex + 1, 0)
         IN  pushed \o findCluesFromRescanGroup(str, startOffset,
                           IF r.hasNestedBrackets THEN i + 1 ELSE r.i)
    ELSE findCluesFromRescanGroup(str, startOffset, i + 1)

\* Variant: a group with nested brackets is skipped, not searched.
RECURSIVE findCluesFromTopLevelOnly(_, _, _)
findCluesFromTopLevelOnly(str, startOffset, i) ==
    IF i >= Len(str) THEN <<>>
    ELSE IF At(str, i) = "["
    THEN LET startIndex == i
             r == InnerScan(str, i + 1, 1, FALSE, <<>>)
             innerContent == DropLast(r.innerContent)
             pushed ==
                 IF ~r.hasNestedBrackets
                 THEN << [start |-> startOffset + startIndex,
                          end |-> startOffset + r.i,
                          text |-> Slice(str, startIndex, r.i),
                          expression |-> innerContent] >>
                 ELSE <<>>
         IN  pushed \o findCluesFromTopLevelOnly(str, startOffset, r.i)
    ELSE findCluesFromTopLevelOnly(str, startOffset, i + 1)

\* findClues(str, startOffset), resumed at index i; the clues it pushes, in
\* push order.
RECURSIVE findCluesFrom(_, _, _)
findCluesFrom(str, startOffset, i) ==
    IF i >= Len(str) THEN <<>>
    ELSE IF At(str, i) = "["
    THEN LET startIndex == i
             r == InnerScan(str, i + 1, 1, FALSE, <<>>)
             innerContent == DropLast(r.innerContent)
             pushed ==
                 IF ~r.hasNestedBrackets
                 THEN << [start |-> startOffset + startIndex,
                          end |-> startOffset + r.i,
                          text |-> Slice(str, startIndex, r.i),
                          expression |-> innerContent] >>
                 ELSE findCluesFrom(innerContent, startOffset + startIndex + 1, 0)
         IN  pushed \o findCluesFrom(str, startOffset, r.i)
    ELSE findCluesFrom(str, startOffset, i + 1)

findActiveClues(puzzleText) == findCluesFrom(puzzleText, 0, 0)

\* How a call of findActiveClues ends.  The function has no throw statement
\* and applies to its string only indexing, concatenation and slice, none of
\* which can fail: it returns its array for every input.
findActiveCluesOutcome(puzzleText) ==
    [threw |-> FALSE, clues |-> findActiveClues(puzzleText)]

\* ------------------------------------------------------------------------
\* findAvailableExpressions: the regex parser /\[([^\[\]]+?)\]/g
\* ------------------------------------------------------------------------

\* The index just after the longest run of non-bracket characters from i.
RECURSIVE RunEnd(_, _)
RunEnd(str, i) ==
    IF i < Len(str) /\ At(str, i) \notin {"[", "]"} THEN RunEnd(str, i + 1) ELSE i

\* Whether the regex matches at index p, and where the match ends: a '[', one
\* or more non-bracket characters, a ']'.
RegexMatchEnd(str, p) ==
    IF p < Len(str) /\ At(str, p) = "["
    THEN LET q == RunEnd(str, p + 1) IN
         IF q > p + 1 /\ q < Len(str) /\ At(str, q) = "]" THEN q + 1 ELSE -1
    ELSE -1

\* Successive regex.exec calls from lastIndex; matchedPositions is the set of
\* start indices already pushed.
RECURSIVE ExecLoop(_, _, _)
ExecLoop(str, lastIndex, matchedPositions) ==
    IF lastIndex >= Len(str) THEN <<>>
    ELSE LET endIdx == RegexMatchEnd(str, lastIndex) IN
         IF endIdx = -1 THEN ExecLoop(str, lastIndex + 1, matchedPositions)
         ELSE LET startIdx == lastIndex
                  found == [expression |-> Slice(str, startIdx + 1, endIdx - 1),
                            startIndex |-> startIdx,
                            endIndex |-> endIdx]
              IN  (IF startIdx \notin matchedPositions THEN <<found>> ELSE <<>>)
                  \o ExecLoop(str, endIdx, matchedPositions \cup {startIdx})

findAvailableExpressions(gameState) == ExecLoop(gameState.displayState, 0, {})

\* ------------------------------------------------------------------------
\* JavaScript values and property lookup on the parsed solutions object
\* ------------------------------------------------------------------------

Undefined == [type |-> "undefined", str |-> <<>>]
StringValue(s) == [type |-> "string", str |-> s]
\* Object.prototype, the value every plain object inherits under "__proto__".
ObjectPrototypeValue == [type |-> "object", str |-> <<>>]

ProtoKey == <<"_", "_", "p", "r", "o", "t", "o", "_", "_">>

\* puzzleData.solutions[key]: an own entry, else what the object inherits.
PropertyGet(solutions, key) ==
    IF key \in DOMAIN solutions THEN StringValue(solutions[key])
    ELSE IF key = ProtoKey THEN ObjectPrototypeValue
    ELSE Undefined

\* JavaScript truthiness of a looked-up value (`solution &&`, `!solution`).
Truthy(v) == v.type = "object" \/ (v.type = "string" /\ v.str # <<>>)

\* String concatenation `a + v + b` converts v with ToString.
ObjectObjectText ==
    <<"[", "o", "b", "j", "e", "c", "t", " ", "O", "b", "j", "e", "c", "t", "]">>

ToStringValue(v) ==
    IF v.type = "string" THEN v.str
    ELSE IF v.type = "object" THEN ObjectObjectText
    ELSE <<"u", "n", "d", "e", "f", "i", "n", "e", "d">>

\* A field the returned object does not have.
Absent == <<"absent">>

\* ------------------------------------------------------------------------
\* Game state
\* ------------------------------------------------------------------------

initializeGameState(puzzleData) ==
    [displayState |-> puzzleData.initialPuzzle,
     solvedExpressions |-> {},
     hintedExpressions |-> {},
     revealedExpressions |-> {},
     activeClues |-> findActiveClues(puzzleData.initialPuzzle),
     totalClues |-> Cardinality(DOMAIN puzzleData.solutions)]

\* Variant: the lookup compares against the bracketed text "[expression]".
FindExpressionBracketed(availableExpressions, expression, k) ==
    IF \E j \in k..Len(availableExpressions) :
          availableExpressions[j].expression = <<"[">> \o expression \o <<"]">>
    THEN CHOOSE j \in k..Len(availableExpressions) :
          availableExpressions[j].expression = <<"[">> \o expression \o <<"]">>
    ELSE 0

\* availableExpressions.find((e) => e.expression === expression): the index
\* (from 1) of the first such element, 0 when there is none.
RECURSIVE FindExpression(_, _, _)
FindExpression(availableExpressions, expression, k) ==
    IF k > Len(availableExpressions) THEN 0
    ELSE IF availableExpressions[k].expression = expression THEN k
    ELSE FindExpression(availableExpressions, expression, k + 1)

\* What a call gives back: a returned object, or a thrown TypeError.
Returned(success, message, gameState, hint, solution) ==
    [threw |-> FALSE, success |-> success, message |-> message,
     gameState |-> gameState, hint |-> hint, solution |-> solution]

Thrown(gameState) ==
    [threw |-> TRUE, success |-> FALSE, message |-> <<"TypeError">>,
     gameState |-> gameState, hint |-> Absent, solution |-> Absent]

MsgCorrect(expression, solution) ==
    <<"Correct! \"", expression, "\" = \"", solution, "\"">>
MsgIncorrect(guess, expression) ==
    <<"Incorrect guess \"", guess, "\" for \"", expression, "\".">>
MsgNoActive(expression) ==
    <<"No active bracketed clue found for \"", expression, "\".">>
MsgNoSolution(expression) ==
    <<"No solution found for clue \"", expression, "\".">>
MsgHint(expression, firstLetter) ==
    <<"Hint for \"", expression, "\": The answer begins with \"", firstLetter, "\".">>
MsgRevealed(expression, solution) ==
    <<"Revealed answer for \"", expression, "\": \"", solution, "\"">>

\* ------------------------------------------------------------------------
\* The three actions of the engine
\* ------------------------------------------------------------------------

\* Variant: the splice keeps the clue's brackets around the solution.
GuessUpdateKeepsBrackets(gameState, expr, solution) ==
    LET newDisplayState ==
            Slice(gameState.displayState, 0, expr.startIndex + 1)
            \o solution
            \o SliceFrom(gameState.displayState, expr.endIndex - 1)
    IN  [gameState EXCEPT
            !.displayState = newDisplayState,
            !.solvedExpressions = gameState.solvedExpressions \cup {expr.expression},
            !.activeClues = findActiveClues(newDisplayState)]

\* Variant: the solved set is rebuilt from the clue just solved.
GuessUpdateForgetsSolved(gameState, expr, solution) ==
    LET newDisplayState ==
            Slice(gameState.displayState, 0, expr.startIndex)
            \o solution
            \o SliceFrom(gameState.displayState, expr.endIndex)
    IN  [gameState EXCEPT
            !.displayState = newDisplayState,
            !.solvedExpressions = {expr.expression},
            !.activeClues = findActiveClues(newDisplayState)]

\* Variant: the cached activeClues are carried over from the state before.
GuessUpdateStaleClues(gameState, expr, solution) ==
    LET newDisplayState ==
            Slice(gameState.displayState, 0, expr.startIndex)
            \o solution
            \o SliceFrom(gameState.displayState, expr.endIndex)
    IN  [gameState EXCEPT
            !.displayState = newDisplayState,
            !.solvedExpressions = gameState.solvedExpressions \cup {expr.expression}]

\* The state a successful makeGuess returns.
GuessUpdate(gameState, expr, solution) ==
    LET newDisplayState ==
            Slice(gameState.displayState, 0, expr.startIndex)
            \o solution
            \o SliceFrom(gameState.displayState, expr.endIndex)
    IN  [gameState EXCEPT
            !.displayState = newDisplayState,
            !.solvedExpressions = gameState.solvedExpressions \cup {expr.expression},
            !.activeClues = findActiveClues(newDisplayState)]

\* Variant: the comparison without case folding and trimming.
GuessMatchesExact(guess, solution) == guess = solution

\* guess.toLowerCase().trim() === solution.toLowerCase().trim()
GuessMatches(guess, solution) ==
    trim(toLowerCase(guess)) = trim(toLowerCase(solution))

\* The for loop of makeGuess from element k: how it ends ("match": the return
\* inside the loop at element k; "throw": the TypeError raised at element k;
\* "none": the loop ran to its end).
RECURSIVE GuessLoop(_, _, _, _)
GuessLoop(availableExpressions, k, guess, puzzleData) ==
    IF k > Len(availableExpressions) THEN [kind |-> "none", k |-> 0]
    ELSE LET currentExpression == availableExpressions[k].expression
             solution == PropertyGet(puzzleData.solutions, currentExpression)
         IN  IF ~Truthy(solution)
             THEN GuessLoop(availableExpressions, k + 1, guess, puzzleData)
             ELSE IF solution.type # "string"
             THEN [kind |-> "throw", k |-> k]  \* solution.toLowerCase is not a function
             ELSE IF GuessMatches(guess, solution.str)
             THEN [kind |-> "match", k |-> k]
             ELSE GuessLoop(availableExpressions, k + 1, guess, puzzleData)

\* Variant: an active target is reported as an incorrect guess without
\* looking its solution up.
makeGuessNoSolutionCheck(expression, guess, gameState, puzzleData) ==
    LET availableExpressions == findAvailableExpressions(gameState)
        loop == GuessLoop(availableExpressions, 1, guess, puzzleData)
        targetExpression == FindExpression(availableExpressions, expression, 1)
    IN  IF loop.kind = "match"
        THEN LET expr == availableExpressions[loop.k]
                 solution == puzzleData.solutions[expr.expression]
             IN  Returned(TRUE, MsgCorrect(expr.expression, solution),
                          GuessUpdate(gameState, expr, solution), Absent, Absent)
        ELSE IF loop.kind = "throw" THEN Thrown(gameState)
        ELSE IF targetExpression # 0
        THEN Returned(FALSE, MsgIncorrect(guess, expression), gameState, Absent, Absent)
        ELSE Returned(FALSE, MsgNoActive(expression), gameState, Absent, Absent)

makeGuess(expression, guess, gameState, puzzleData) ==
    LET availableExpressions == findAvailableExpressions(gameState)
        loop == GuessLoop(availableExpressions, 1, guess, puzzleData)
        targetExpression == FindExpression(availableExpressions, expression, 1)
    IN  IF loop.kind = "match"
        THEN LET expr == availableExpressions[loop.k]
                 solution == puzzleData.solutions[expr.expression]
             IN  Returned(TRUE, MsgCorrect(expr.expression, solution),
                          GuessUpdate(gameState, expr, solution), Absent, Absent)
        ELSE IF loop.kind = "throw" THEN Thrown(gameState)
        ELSE IF targetExpression # 0
                /\ Truthy(PropertyGet(puzzleData.solutions, expression))
        THEN Returned(FALSE, MsgIncorrect(guess, expression), gameState, Absent, Absent)
        ELSE Returned(FALSE, MsgNoActive(expression), gameState, Absent, Absent)

\* Variant: the solution is looked up before the clue is checked to be active.
getHintSolutionFirst(expression, gameState, puzzleData) ==
    LET availableExpressions == findAvailableExpressions(gameState)
        targetExpression == FindExpression(availableExpressions, expression, 1)
        solution == PropertyGet(puzzleData.solutions, expression)
    IN  IF ~Truthy(solution)
        THEN Returned(FALSE, MsgNoSolution(expression), gameState, Absent, Absent)
        ELSE IF targetExpression = 0
        THEN Returned(FALSE, MsgNoActive(expression), gameState, Absent, Absent)
        ELSE IF solution.type # "string"
        THEN Thrown(gameState)
        ELSE LET firstLetter == Slice(solution.str, 0, 1)
             IN  Returned(TRUE, MsgHint(expression, firstLetter),
                          [gameState EXCEPT !.hintedExpressions =
                              gameState.hintedExpressions \cup {expression}],
                          firstLetter, Absent)

\* Variant: the hint is the first character of the trimmed solution.
getHintOfTrimmed(expression, gameState, puzzleData) ==
    LET availableExpressions == findAvailableExpressions(gameState)
        targetExpression == FindExpression(availableExpressions, expression, 1)
        solution == PropertyGet(puzzleData.solutions, expression)
    IN  IF targetExpression = 0
        THEN Returned(FALSE, MsgNoActive(expression), gameState, Absent, Absent)
        ELSE IF ~Truthy(solution)
        THEN Returned(FALSE, MsgNoSolution(expression), gameState, Absent, Absent)
        ELSE IF solution.type # "string"
        THEN Thrown(gameState)
        ELSE LET firstLetter == Slice(trim(solution.str), 0, 1)
             IN  Returned(TRUE, MsgHint(expression, firstLetter),
                          [gameState EXCEPT !.hintedExpressions =
                              gameState.hintedExpressions \cup {expression}],
                          firstLetter, Absent)

getHint(expression, gameState, puzzleData) ==
    LET availableExpressions == findAvailableExpressions(gameState)
        targetExpression == FindExpression(availableExpressions, expression, 1)
        solution == PropertyGet(puzzleData.solutions, expression)
    IN  IF targetExpression = 0
        THEN Returned(FALSE, MsgNoActive(expression), gameState, Absent, Absent)
        ELSE IF ~Truthy(solution)
        THEN Returned(FALSE, MsgNoSolution(expression), gameState, Absent, Absent)
        ELSE IF solution.type # "string"
        THEN Thrown(gameState)  \* solution.charAt is not a function
        ELSE LET firstLetter == Slice(solution.str, 0, 1)  \* charAt(0)
             IN  Returned(TRUE, MsgHint(expression, firstLetter),
                          [gameState EXCEPT !.hintedExpressions =
                              gameState.hintedExpressions \cup {expression}],
                          firstLetter, Absent)

\* Variant: the last active clue with the expression is replaced, not the first.
revealClueReplacesLast(expression, gameState, puzzleData) ==
    LET availableExpressions == findAvailableExpressions(gameState)
        hits == { j \in 1..Len(availableExpressions) :
                    availableExpressions[j].expression = expression }
        solution == PropertyGet(puzzleData.solutions, expression)
    IN  IF hits = {}
        THEN Returned(FALSE, MsgNoActive(expression), gameState, Absent, Absent)
        ELSE IF ~Truthy(solution)
        THEN Returned(FALSE, MsgNoSolution(expression), gameState, Absent, Absent)
        ELSE LET targetExpression ==
                     availableExpressions[CHOOSE j \in hits : \A h \in hits : h <= j]
                 newDisplayState ==
                     Slice(gameState.displayState, 0, targetExpression.startIndex)
                     \o ToStringValue(solution)
                     \o SliceFrom(gameState.displayState, targetExpression.endIndex)
             IN  Returned(TRUE,
                          MsgRevealed(expression, ToStringValue(solution)),
                          [gameState EXCEPT
                              !.displayState = newDisplayState,
                              !.solvedExpressions =
                                  gameState.solvedExpressions \cup {expression},
                              !.revealedExpressions =
                                  gameState.revealedExpressions \cup {expression},
                              !.activeClues = findActiveClues(newDisplayState)],
                          Absent,
                          IF solution.type = "string" THEN solution.str
                          ELSE <<"object">>)

\* Variant: a revealed expression is recorded as revealed only.
revealClueNotSolved(expression, gameState, puzzleData) ==
    LET availableExpressions == findAvailableExpressions(gameState)
        k == FindExpression(availableExpressions, expression, 1)
        solution == PropertyGet(puzzleData.solutions, expression)
    IN  IF k = 0
        THEN Returned(FALSE, MsgNoActive(expression), gameState, Absent, Absent)
        ELSE IF ~Truthy(solution)
        THEN Returned(FALSE, MsgNoSolution(expression), gameState, Absent, Absent)
        ELSE LET targetExpression == availableExpressions[k]
                 newDisplayState ==
                     Slice(gameState.displayState, 0, targetExpression.startIndex)
                     \o ToStringValue(solution)
                     \o SliceFrom(gameState.displayState, targetExpression.endIndex)
             IN  Returned(TRUE,
                          MsgRevealed(expression, ToStringValue(solution)),
                          [gameState EXCEPT
                              !.displayState = newDisplayState,
                              !.revealedExpressions =
                                  gameState.revealedExpressions \cup {expression},
                              !.activeClues = findActiveClues(newDisplayState)],
                          Absent,
                          IF solution.type = "string" THEN solution.str
                          ELSE <<"object">>)

\* Variant: the solution is written between the clue's brackets.
revealClueKeepsBrackets(expression, gameState, puzzleData) ==
    LET availableExpressions == findAvailableExpressions(gameState)
        k == FindExpression(availableExpressions, expression, 1)
        solution == PropertyGet(puzzleData.solutions, expression)
    IN  IF k = 0
        THEN Returned(FALSE, MsgNoActive(expression), gameState, Absent, Absent)
        ELSE IF ~Truthy(solution)
        THEN Returned(FALSE, MsgNoSolution(expression), gameState, Absent, Absent)
        ELSE LET targetExpression == availableExpressions[k]
                 newDisplayState ==
                     Slice(gameState.displayState, 0,
                           targetExpression.startIndex + 1)
                     \o ToStringValue(solution)
                     \o SliceFrom(gameState.displayState,
                                  targetExpression.endIndex - 1)
             IN  Returned(TRUE,
                          MsgRevealed(expression, ToStringValue(solution)),
                          [gameState EXCEPT
                              !.displayState = newDisplayState,
                              !.solvedExpressions =
                                  gameState.solvedExpressions \cup {expression},
                              !.revealedExpressions =
                                  gameState.revealedExpressions \cup {expression},
                              !.activeClues = findActiveClues(newDisplayState)],
                          Absent,
                          IF solution.type = "string" THEN solution.str
                          ELSE <<"object">>)

\* Variant: a revealed expression is recorded as solved only.
revealClueNotRevealed(expression, gameState, puzzleData) ==
    LET availableExpressions == findAvailableExpressions(gameState)
        k == FindExpression(availableExpressions, expression, 1)
        solution == PropertyGet(puzzleData.solutions, expression)
    IN  IF k = 0
        THEN Returned(FALSE, MsgNoActive(expression), gameState, Absent, Absent)
        ELSE IF ~Truthy(solution)
        THEN Returned(FALSE, MsgNoSolution(expression), gameState, Absent, Absent)
        ELSE LET targetExpression == availableExpressions[k]
                 newDisplayState ==
                     Slice(gameState.displayState, 0, targetExpression.startIndex)
                     \o ToStringValue(solution)
                     \o SliceFrom(gameState.displayState, targetExpression.endIndex)
             IN  Returned(TRUE,
                          MsgRevealed(expression, ToStringValue(solution)),
                          [gameState EXCEPT
                              !.displayState = newDisplayState,
                              !.solvedExpressions =
                                  gameState.solvedExpressions \cup {expression},
                              !.activeClues = findActiveClues(newDisplayState)],
                          Absent,
                          IF solution.type = "string" THEN solution.str
                          ELSE <<"object">>)

revealClue(expression, gameState, puzzleData) ==
    LET availableExpressions == findAvailableExpressions(gameState)
        k == FindExpression(availableExpressions, expression, 1)
        solution == PropertyGet(puzzleData.solutions, expression)
    IN  IF k = 0
        THEN Returned(FALSE, MsgNoActive(expression), gameState, Absent, Absent)
        ELSE IF ~Truthy(solution)
        THEN Returned(FALSE, MsgNoSolution(expression), gameState, Absent, Absent)
        ELSE LET targetExpression == availableExpressions[k]
                 newDisplayState ==
                     Slice(gameState.displayState, 0, targetExpression.startIndex)
                     \o ToStringValue(solution)
                     \o SliceFrom(gameState.displayState, targetExpression.endIndex)
             IN  Returned(TRUE,
                          MsgRevealed(expression, ToStringValue(solution)),
                          [gameState EXCEPT
                              !.displayState = newDisplayState,
                              !.solvedExpressions =
                                  gameState.solvedExpressions \cup {expression},
                              !.revealedExpressions =
                                  gameState.revealedExpressions \cup {expression},
                              !.activeClues = findActiveClues(newDisplayState)],
                          Absent,
                          IF solution.type = "string" THEN solution.str
                          ELSE <<"object">>)

\* ------------------------------------------------------------------------
\* Scoring
\* ------------------------------------------------------------------------

\* rankThresholds, in the object's key order.
RankNames ==
    <<"Tourist", "Commuter", "Resident", "Council Member", "Chief of Police",
      "Mayor", "Power Broker", "Kingmaker", "Puppet Master">>

getScoreConfig ==
    [peekPenalty |-> 5,
     megaPeekPenalty |-> 15,
     wrongGuessPenalty |-> 2,
     rankThresholds |->
        [r \in {RankNames[i] : i \in 1..Len(RankNames)} |->
            CASE r = "Tourist" -> 0
              [] r = "Commuter" -> 11
              [] r = "Resident" -> 21
              [] r = "Council Member" -> 31
              [] r = "Chief of Police" -> 51
              [] r = "Mayor" -> 68
              [] r = "Power Broker" -> 79
              [] r = "Kingmaker" -> 91
              [] r = "Puppet Master" -> 100]]

\* Object.entries(config.rankThresholds): <<name, threshold>> pairs in key order.
RankEntries ==
    [i \in 1..Len(RankNames) |->
        <<RankNames[i], getScoreConfig.rankThresholds[RankNames[i]]>>]

\* The two comparators: (a, b) => a[1] - b[1] (dir = 1, ascending) and
\* (a, b) => b[1] - a[1] (dir = -1, descending) on <<name, threshold>> pairs.
Compare(a, b, dir) == dir * (a[2] - b[2])

\* Array.prototype.sort (stable): x goes before the first element it compares
\* below.
RECURSIVE InsertSorted(_, _, _)
InsertSorted(sorted, x, dir) ==
    IF sorted = <<>> THEN <<x>>
    ELSE IF Compare(x, Head(sorted), dir) < 0 THEN <<x>> \o sorted
    ELSE <<Head(sorted)>> \o InsertSorted(Tail(sorted), x, dir)

RECURSIVE SortEntries(_, _)
SortEntries(arr, dir) ==
    IF arr = <<>> THEN <<>>
    ELSE InsertSorted(SortEntries(SubSeq(arr, 1, Len(arr) - 1), dir),
                      arr[Len(arr)], dir)

\* ranks.find(([_, threshold]) => finalScore >= threshold): index from 1, 0 if none.
RECURSIVE FindReached(_, _, _)
FindReached(ranks, finalScore, k) ==
    IF k > Len(ranks) THEN 0
    ELSE IF finalScore >= ranks[k][2] THEN k
    ELSE FindReached(ranks, finalScore, k + 1)

\* ranks.findIndex(([r]) => r === rank): JavaScript's index, -1 if none.
RECURSIVE FindRankIndex(_, _, _)
FindRankIndex(ranks, rank, k) ==
    IF k > Len(ranks) THEN -1
    ELSE IF ranks[k][1] = rank THEN k - 1
    ELSE FindRankIndex(ranks, rank, k + 1)

Max(a, b) == IF a >= b THEN a ELSE b
Min(a, b) == IF a <= b THEN a ELSE b

\* Variant: the special case looks at hints and reveals only, not at the
\* score or the wrong guesses.
calculateRankNoHelpOnly(finalScore, peekCount, megaPeekCount, wrongGuessCount) ==
    LET isNoHelp == peekCount = 0 /\ megaPeekCount = 0
        ranks == SortEntries(RankEntries, -1)
        rank == FindReached(ranks, finalScore, 1)
    IN  IF isNoHelp THEN "Puppet Master"
        ELSE IF rank # 0 THEN ranks[rank][1] ELSE "Tourist"

\* Variant: the threshold table is searched in ascending order.
calculateRankAscending(finalScore, peekCount, megaPeekCount, wrongGuessCount) ==
    LET isPerfect == finalScore = 100
        isNoHelp == peekCount = 0 /\ megaPeekCount = 0 /\ wrongGuessCount = 0
        ranks == SortEntries(RankEntries, 1)
        rank == FindReached(ranks, finalScore, 1)
    IN  IF isPerfect /\ isNoHelp THEN "Puppet Master"
        ELSE IF rank # 0 THEN ranks[rank][1] ELSE "Tourist"

calculateRank(finalScore, peekCount, megaPeekCount, wrongGuessCount) ==
    LET isPerfect == finalScore = 100
        isNoHelp == peekCount = 0 /\ megaPeekCount = 0 /\ wrongGuessCount = 0
        ranks == SortEntries(RankEntries, -1)
        rank == FindReached(ranks, finalScore, 1)
    IN  IF isPerfect /\ isNoHelp THEN "Puppet Master"
        ELSE IF rank # 0 THEN ranks[rank][1] ELSE "Tourist"

\* A nextRankName of null.
Null == "null"

\* Variant: the hint penalty is charged per successful getHint call
\* (stats.hints) instead of per hinted expression.
calculateScorePerHintCall(gameState, stats) ==
    LET config == getScoreConfig
        peekCount == Max(0, stats.hints)
        megaPeekCount == Max(0, Cardinality(gameState.revealedExpressions))
        wrongGuessCount == Max(0, stats.guesses - stats.correctGuesses)
        peekPenalty == peekCount * config.peekPenalty
        megaPeekPenalty == megaPeekCount * config.megaPeekPenalty
        wrongGuessPenalty == wrongGuessCount * config.wrongGuessPenalty
        baseScore == 100
        totalPenalty == peekPenalty + megaPeekPenalty + wrongGuessPenalty
        finalScore == Min(100, Max(0, baseScore - totalPenalty))
        rank == calculateRank(finalScore, peekCount, megaPeekCount, wrongGuessCount)
        ranks == SortEntries(RankEntries, 1)
        currentRankIndex == FindRankIndex(ranks, rank, 1)
        hasNext == currentRankIndex < Len(ranks) - 1
        nextRank == ranks[currentRankIndex + 2]
        pointsToNextRank == IF hasNext THEN Max(0, nextRank[2] - finalScore) ELSE 0
    IN  [baseScore |-> baseScore,
         peekPenalty |-> peekPenalty,
         megaPeekPenalty |-> megaPeekPenalty,
         wrongGuessPenalty |-> wrongGuessPenalty,
         totalPenalty |-> totalPenalty,
         finalScore |-> finalScore,
         rank |-> rank,
         nextRankName |-> IF hasNext THEN nextRank[1] ELSE Null,
         pointsToNextRank |-> pointsToNextRank]

\* Variant: the next rank is looked up in the table sorted by descending
\* threshold.
calculateScoreNextFromDescending(gameState, stats) ==
    LET config == getScoreConfig
        peekCount == Max(0, Cardinality(gameState.hintedExpressions))
        megaPeekCount == Max(0, Cardinality(gameState.revealedExpressions))
        wrongGuessCount == Max(0, stats.guesses - stats.correctGuesses)
        peekPenalty == peekCount * config.peekPenalty
        megaPeekPenalty == megaPeekCount * config.megaPeekPenalty
        wrongGuessPenalty == wrongGuessCount * config.wrongGuessPenalty
        baseScore == 100
        totalPenalty == peekPenalty + megaPeekPenalty + wrongGuessPenalty
        finalScore == Min(100, Max(0, baseScore - totalPenalty))
        rank == calculateRank(finalScore, peekCount, megaPeekCount, wrongGuessCount)
        ranks == SortEntries(RankEntries, -1)
        currentRankIndex == FindRankIndex(ranks, rank, 1)
        hasNext == currentRankIndex < Len(ranks) - 1
        nextRank == ranks[currentRankIndex + 2]
        pointsToNextRank == IF hasNext THEN Max(0, nextRank[2] - finalScore) ELSE 0
    IN  [baseScore |-> baseScore,
         peekPenalty |-> peekPenalty,
         megaPeekPenalty |-> megaPeekPenalty,
         wrongGuessPenalty |-> wrongGuessPenalty,
         totalPenalty |-> totalPenalty,
         finalScore |-> finalScore,
         rank |-> rank,
         nextRankName |-> IF hasNext THEN nextRank[1] ELSE Null,
         pointsToNextRank |-> pointsToNextRank]

\* Variant: the final score is capped at 100 but has no floor at 0.
calculateScoreNoFloor(gameState, stats) ==
    LET config == getScoreConfig
        peekCount == Max(0, Cardinality(gameState.hintedExpressions))
        megaPeekCount == Max(0, Cardinality(gameState.revealedExpressions))
        wrongGuessCount == Max(0, stats.guesses - stats.correctGuesses)
        peekPenalty == peekCount * config.peekPenalty
        megaPeekPenalty == megaPeekCount * config.megaPeekPenalty
        wrongGuessPenalty == wrongGuessCount * config.wrongGuessPenalty
        baseScore == 100
        totalPenalty == peekPenalty + megaPeekPenalty + wrongGuessPenalty
        finalScore == Min(100, baseScore - totalPenalty)
        rank == calculateRank(Max(0, finalScore), peekCount, megaPeekCount,
                              wrongGuessCount)
        ranks == SortEntries(RankEntries, 1)
        currentRankIndex == FindRankIndex(ranks, rank, 1)
        hasNext == currentRankIndex < Len(ranks) - 1
        nextRank == ranks[currentRankIndex + 2]
        pointsToNextRank == IF hasNext THEN Max(0, nextRank[2] - finalScore) ELSE 0
    IN  [baseScore |-> baseScore,
         peekPenalty |-> peekPenalty,
         megaPeekPenalty |-> megaPeekPenalty,
         wrongGuessPenalty |-> wrongGuessPenalty,
         totalPenalty |-> totalPenalty,
         finalScore |-> finalScore,
         rank |-> rank,
         nextRankName |-> IF hasNext THEN nextRank[1] ELSE Null,
         pointsToNextRank |-> pointsToNextRank]

\* Variant: wrong guesses are counted but not charged in the final score.
calculateScoreWrongGuessesFree(gameState, stats) ==
    LET config == getScoreConfig
        peekCount == Max(0, Cardinality(gameState.hintedExpressions))
        megaPeekCount == Max(0, Cardinality(gameState.revealedExpressions))
        wrongGuessCount == Max(0, stats.guesses - stats.correctGuesses)
        peekPenalty == peekCount * config.peekPenalty
        megaPeekPenalty == megaPeekCount * config.megaPeekPenalty
        wrongGuessPenalty == wrongGuessCount * config.wrongGuessPenalty
        baseScore == 100
        totalPenalty == peekPenalty + megaPeekPenalty + wrongGuessPenalty
        finalScore == Min(100, Max(0, baseScore - (peekPenalty + megaPeekPenalty)))
        rank == calculateRank(finalScore, peekCount, megaPeekCount, wrongGuessCount)
        ranks == SortEntries(RankEntries, 1)
        currentRankIndex == FindRankIndex(ranks, rank, 1)
        hasNext == currentRankIndex < Len(ranks) - 1
        nextRank == ranks[currentRankIndex + 2]
        pointsToNextRank == IF hasNext THEN Max(0, nextRank[2] - finalScore) ELSE 0
    IN  [baseScore |-> baseScore,
         peekPenalty |-> peekPenalty,
         megaPeekPenalty |-> megaPeekPenalty,
         wrongGuessPenalty |-> wrongGuessPenalty,
         totalPenalty |-> totalPenalty,
         finalScore |-> finalScore,
         rank |-> rank,
         nextRankName |-> IF hasNext THEN nextRank[1] ELSE Null,
         pointsToNextRank |-> pointsToNextRank]

calculateScore(gameState, stats) ==
    LET config == getScoreConfig
        peekCount == Max(0, Cardinality(gameState.hintedExpressions))
        megaPeekCount == Max(0, Cardinality(gameState.revealedExpressions))
        wrongGuessCount == Max(0, stats.guesses - stats.correctGuesses)
        peekPenalty == peekCount * config.peekPenalty
        megaPeekPenalty == megaPeekCount * config.megaPeekPenalty
        wrongGuessPenalty == wrongGuessCount * config.wrongGuessPenalty
        baseScore == 100
        totalPenalty == peekPenalty + megaPeekPenalty + wrongGuessPenalty
        finalScore == Min(100, Max(0, baseScore - totalPenalty))
        rank == calculateRank(finalScore, peekCount, megaPeekCount, wrongGuessCount)
        ranks == SortEntries(RankEntries, 1)
        currentRankIndex == FindRankIndex(ranks, rank, 1)
        hasNext == currentRankIndex < Len(ranks) - 1
        nextRank == ranks[currentRankIndex + 2]
        pointsToNextRank == IF hasNext THEN Max(0, nextRank[2] - finalScore) ELSE 0
    IN  [baseScore |-> baseScore,
         peekPenalty |-> peekPenalty,
         megaPeekPenalty |-> megaPeekPenalty,
         wrongGuessPenalty |-> wrongGuessPenalty,
         totalPenalty |-> totalPenalty,
         finalScore |-> finalScore,
         rank |-> rank,
         nextRankName |-> IF hasNext THEN nextRank[1] ELSE Null,
         pointsToNextRank |-> pointsToNextRank]  \* Math.ceil of an integer

\* What solvePuzzleWithLLM returns once generateText has returned: the final
\* completion check, the score, and the override for an uncompleted puzzle.
\* completionPercentage is kept as the fraction <<numerator, denominator>>.
RunResult(gameState, stats) ==
    LET finalAvailableClues == findAvailableExpressions(gameState)
        completedPuzzle == Len(finalAvailableClues) = 0
        scoreDetails == calculateScore(gameState, stats)
        totalClues == gameState.totalClues
        solvedClues == Cardinality(gameState.solvedExpressions)
        completionPercentage ==
            IF totalClues > 0 THEN <<solvedClues * 100, totalClues>> ELSE <<0, 1>>
        finalScore == IF completedPuzzle THEN scoreDetails.finalScore ELSE 0
        rank == IF completedPuzzle THEN scoreDetails.rank ELSE "Tourist"
    IN  [success |-> completedPuzzle,
         stats |-> stats @@ [completionPercentage |-> completionPercentage],
         score |-> finalScore,
         rank |-> rank,
         scoreDetails |-> [scoreDetails EXCEPT !.finalScore = finalScore]]

\* ------------------------------------------------------------------------
\* Puzzles and tool-call inputs explored
\* ------------------------------------------------------------------------

Puzzle(initialPuzzle, solutions) ==
    [initialPuzzle |-> initialPuzzle, solutions |-> solutions]

\* Ordinary puzzle files: well-formed documents, string solutions.
Puzzles ==
    { \* "[a] [b]": two active clues whose solutions differ only in case and padding
      Puzzle(<<"[", "a", "]", " ", "[", "b", "]">>,
             (<<"a">> :> <<"A">>) @@ (<<"b">> :> <<" ", "a">>)),
      \* "[[a]b]": a nested clue that becomes active once the inner one is resolved
      Puzzle(<<"[", "[", "a", "]", "b", "]">>,
             (<<"a">> :> <<"B">>) @@ (<<"B", "b">> :> <<"a", " ", "b">>)),
      \* "[a][a]": the same clue text twice
      Puzzle(<<"[", "a", "]", "[", "a", "]">>,
             (<<"a">> :> <<"b">>)),
      \* "[b][a]": an active clue with no Answer Key entry before one that has it
      Puzzle(<<"[", "b", "]", "[", "a", "]">>,
             (<<"a">> :> <<"A">>)),
      \* "[a][[b]]": resolving b makes the text "a" active a second time
      Puzzle(<<"[", "a", "]", "[", "[", "b", "]", "]">>,
             (<<"a">> :> <<"B">>) @@ (<<"b">> :> <<"a">>)) }

\* Puzzle files whose clue text is a name every object inherits and whose
\* Answer Key has no entry for it: "[__proto__][a]" and "[a][__proto__]".
InheritedKeyPuzzles ==
    { Puzzle(<<"[">> \o ProtoKey \o <<"]", "[", "a", "]">>,
             (<<"a">> :> <<"A">>)),
      Puzzle(<<"[", "a", "]", "[">> \o ProtoKey \o <<"]">>,
             (<<"a">> :> <<"A">>)) }

\* The `clue` arguments a model may pass.
ClueInputs ==
    { <<"a">>, <<"b">>, <<"B", "b">>, ProtoKey }

\* The `guess` arguments a model may pass.
GuessInputs ==
    { <<" ", "A", " ">>, <<"b">>, <<"A", " ", "B", " ">>, <<"x">> }

\* ------------------------------------------------------------------------
\* solvePuzzleWithLLM: the state the tool callbacks share
\* ------------------------------------------------------------------------

VARIABLES
    puzzleData,       \* the loaded puzzle file
    gameState,        \* let gameState
    stats,            \* const stats
    completedPuzzle,  \* let completedPuzzle
    pc,               \* "running", or "error" once a callback has thrown
    calls,            \* tool callbacks executed so far
    call,             \* the last callback: its arguments, the state it read, its result
    concurrency,      \* main: the queue's concurrency option
    runs,             \* main: per queued job, its place in the queue and the
                      \* locals of its solvePuzzleWithLLM invocation
    files,            \* main: the result files written, by job
    errors,           \* main: the jobs reported with console.error
    toolCalls         \* generateText: the tool calls of the current step and
                      \* how far the callback of each one has got

\* The variables of the benchmark driver.
benchVars == <<concurrency, runs, files, errors>>

vars == <<puzzleData, gameState, stats, completedPuzzle, pc, calls, call,
          concurrency, runs, files, errors, toolCalls>>

\* No tool call has been issued, or the calls of the last step have settled.
NoToolCalls == [frames |-> <<>>]

\* A single solvePuzzleWithLLM invocation, no queue around it.
NoBenchmark ==
    /\ concurrency = 0
    /\ runs = <<>>
    /\ files = <<>>
    /\ errors = {}

InitRun(puzzles) ==
    /\ puzzleData \in puzzles
    /\ gameState = initializeGameState(puzzleData)
    /\ stats = [guesses |-> 0, correctGuesses |-> 0,
                totalClues |-> Cardinality(DOMAIN puzzleData.solutions),
                hints |-> 0, reveals |-> 0]
    /\ completedPuzzle = FALSE
    /\ pc = "running"
    /\ calls = 0
    /\ call = [op |-> "none"]
    /\ NoBenchmark
    /\ toolCalls = NoToolCalls

Init == InitRun(Puzzles)

InitInherited == InitRun(Puzzles \cup InheritedKeyPuzzles)

Called(op, clue, guess, result, statsRead) ==
    [op |-> op, expression |-> clue, guess |-> guess,
     pre |-> gameState, preStats |-> statsRead, result |-> result]

\* Variant: a guess is counted only when its target is an active clue.
ExecMakeGuessCountsActiveOnly(clue, guess) ==
    /\ pc = "running"
    /\ calls < MaxCalls
    /\ LET isActive == FindExpression(findAvailableExpressions(gameState),
                                      clue, 1) # 0
           counted == IF isActive THEN [stats EXCEPT !.guesses = @ + 1] ELSE stats
           result == makeGuess(clue, guess, gameState, puzzleData)
           cluesRemaining == Len(findActiveClues(result.gameState.displayState))
       IN  /\ call' = Called("makeGuess", clue, guess, result, stats)
           /\ calls' = calls + 1
           /\ IF result.threw
              THEN /\ stats' = counted
                   /\ pc' = "error"
                   /\ UNCHANGED <<gameState, completedPuzzle>>
              ELSE /\ gameState' = result.gameState
                   /\ stats' = IF result.success
                               THEN [counted EXCEPT !.correctGuesses = @ + 1]
                               ELSE counted
                   /\ completedPuzzle' =
                          IF result.success /\ cluesRemaining = 0
                          THEN TRUE ELSE completedPuzzle
                   /\ pc' = pc
    /\ UNCHANGED <<puzzleData, benchVars, toolCalls>>

\* Variant: once completedPuzzle is set the callback answers without
\* counting the guess.
ExecMakeGuessIgnoredWhenComplete(clue, guess) ==
    /\ pc = "running"
    /\ calls < MaxCalls
    /\ LET counted == IF completedPuzzle THEN stats
                      ELSE [stats EXCEPT !.guesses = @ + 1]
           result == makeGuess(clue, guess, gameState, puzzleData)
           cluesRemaining == Len(findActiveClues(result.gameState.displayState))
       IN  /\ call' = Called("makeGuess", clue, guess, result, stats)
           /\ calls' = calls + 1
           /\ IF result.threw
              THEN /\ stats' = counted
                   /\ pc' = "error"
                   /\ UNCHANGED <<gameState, completedPuzzle>>
              ELSE /\ gameState' = result.gameState
                   /\ stats' = IF result.success
                               THEN [counted EXCEPT !.correctGuesses = @ + 1]
                               ELSE counted
                   /\ completedPuzzle' =
                          IF result.success /\ cluesRemaining = 0
                          THEN TRUE ELSE completedPuzzle
                   /\ pc' = pc
    /\ UNCHANGED <<puzzleData, benchVars, toolCalls>>

\* tools.makeGuess.execute({ clue, guess })
ExecMakeGuess(clue, guess) ==
    /\ pc = "running"
    /\ calls < MaxCalls
    /\ LET counted == [stats EXCEPT !.guesses = @ + 1]
           result == makeGuess(clue, guess, gameState, puzzleData)
           cluesRemaining == Len(findActiveClues(result.gameState.displayState))
       IN  /\ call' = Called("makeGuess", clue, guess, result, stats)
           /\ calls' = calls + 1
           /\ IF result.threw
              THEN /\ stats' = counted
                   /\ pc' = "error"
                   /\ UNCHANGED <<gameState, completedPuzzle>>
              ELSE /\ gameState' = result.gameState
                   /\ stats' = IF result.success
                               THEN [counted EXCEPT !.correctGuesses = @ + 1]
                               ELSE counted
                   /\ completedPuzzle' =
                          IF result.success /\ cluesRemaining = 0
                          THEN TRUE ELSE completedPuzzle
                   /\ pc' = pc
    /\ UNCHANGED <<puzzleData, benchVars, toolCalls>>

\* tools.getHint.execute({ clue })
ExecGetHint(clue) ==
    /\ pc = "running"
    /\ calls < MaxCalls
    /\ LET result == getHint(clue, gameState, puzzleData)
       IN  /\ call' = Called("getHint", clue, Absent, result, stats)
           /\ calls' = calls + 1
           /\ IF result.threw
              THEN /\ pc' = "error"
                   /\ UNCHANGED <<gameState, stats>>
              ELSE /\ pc' = pc
                   /\ IF result.success
                      THEN /\ stats' = [stats EXCEPT !.hints = @ + 1]
                           /\ gameState' = result.gameState
                      ELSE UNCHANGED <<gameState, stats>>
    /\ UNCHANGED <<puzzleData, completedPuzzle, benchVars, toolCalls>>

\* Variant: the callback counts the reveal and takes the returned state
\* before looking at result.success.
ExecRevealClueCountsEveryCall(clue) ==
    /\ pc = "running"
    /\ calls < MaxCalls
    /\ LET result == revealClue(clue, gameState, puzzleData)
           cluesRemaining == Len(findActiveClues(result.gameState.displayState))
       IN  /\ call' = Called("revealClue", clue, Absent, result, stats)
           /\ calls' = calls + 1
           /\ stats' = [stats EXCEPT !.reveals = @ + 1]
           /\ gameState' = result.gameState
           /\ completedPuzzle' =
                  IF result.success /\ cluesRemaining = 0
                  THEN TRUE ELSE completedPuzzle
    /\ UNCHANGED <<puzzleData, pc, benchVars, toolCalls>>

\* tools.revealClue.execute({ clue })
ExecRevealClue(clue) ==
    /\ pc = "running"
    /\ calls < MaxCalls
    /\ LET result == revealClue(clue, gameState, puzzleData)
           cluesRemaining == Len(findActiveClues(result.gameState.displayState))
       IN  /\ call' = Called("revealClue", clue, Absent, result, stats)
           /\ calls' = calls + 1
           /\ IF result.success
              THEN /\ stats' = [stats EXCEPT !.reveals = @ + 1]
                   /\ gameState' = result.gameState
                   /\ completedPuzzle' =
                          IF cluesRemaining = 0 THEN TRUE ELSE completedPuzzle
              ELSE UNCHANGED <<gameState, stats, completedPuzzle>>
    /\ UNCHANGED <<puzzleData, pc, benchVars, toolCalls>>

Next ==
    \/ \E clue \in ClueInputs, guess \in GuessInputs : ExecMakeGuess(clue, guess)
    \/ \E clue \in ClueInputs : ExecGetHint(clue)
    \/ \E clue \in ClueInputs : ExecRevealClue(clue)

\* generateText has returned (the model stopped calling tools, or the step
\* limit was reached): the final completion check and the run's result.
Finish ==
    /\ pc = "running"
    /\ pc' = "done"
    /\ completedPuzzle' = (Len(findAvailableExpressions(gameState)) = 0)
    /\ call' = [op |-> "finish", pre |-> gameState, preStats |-> stats,
                result |-> RunResult(gameState, stats)]
    /\ UNCHANGED <<puzzleData, gameState, stats, calls, benchVars, toolCalls>>

\* A whole run: tool callbacks, then the result.
NextRun ==
    \/ Next
    \/ Finish

\* Puzzle files whose text has an empty bracket pair: "[a][]".
EmptyPairPuzzles ==
    { Puzzle(<<"[", "a", "]", "[", "]">>, (<<"a">> :> <<"A">>)) }

InitEmptyPair == InitRun(Puzzles \cup EmptyPairPuzzles)

\* const finalAvailableClues = findAvailableExpressions(gameState);
\* completedPuzzle = finalAvailableClues.length === 0, were the run to end in
\* the current state.
FinalCompletedPuzzle == Len(findAvailableExpressions(gameState)) = 0

\* The `score` of the run's result, were the run to end in the current state:
\* completedPuzzle ? scoreDetails.finalScore : 0
FinalReportedScore ==
    IF FinalCompletedPuzzle THEN calculateScore(gameState, stats).finalScore ELSE 0

\* ------------------------------------------------------------------------
\* generateText: the tool calls of one step, executed concurrently
\* ------------------------------------------------------------------------

MaxBatch == 2

\* The puzzle files of these runs: "[a] [b]" and "[[a]b]".
ToolCallPuzzles ==
    { Puzzle(<<"[", "a", "]", " ", "[", "b", "]">>,
             (<<"a">> :> <<"A">>) @@ (<<"b">> :> <<" ", "a">>)),
      Puzzle(<<"[", "[", "a", "]", "b", "]">>,
             (<<"a">> :> <<"B">>) @@ (<<"B", "b">> :> <<"a", " ", "b">>)) }

\* The tool calls a model may put into one response.
ToolCallInputs ==
    { [op |-> "makeGuess", clue |-> clue, guess |-> guess] :
          clue \in {<<"a">>, <<"b">>, <<"B", "b">>},
          guess \in {<<" ", "A", " ">>, <<"b">>} }
    \cup { [op |-> op, clue |-> clue, guess |-> Absent] :
          op \in {"getHint", "revealClue"},
          clue \in {<<"a">>, <<"b">>, <<"B", "b">>} }

\* The variables of solvePuzzleWithLLM that the three callbacks close over.
Shared ==
    [gameState |-> gameState, stats |-> stats,
     completedPuzzle |-> completedPuzzle, pc |-> pc]

\* A tool call whose callback has not been invoked yet.
IssuedCall(toolCall) ==
    [op |-> toolCall.op, clue |-> toolCall.clue, guess |-> toolCall.guess,
     at |-> "issued", result |-> Absent, cluesRemaining |-> 0]

\* Where a callback's execution is once it has ended.
Ended == {"returned", "thrown"}

\* Variant: the callbacks await (a logging call, say) between computing the
\* result and writing it to the shared variables.
AwaitPointsBeforeWrite == {"computed"}

\* The places inside the callback bodies where the callback awaits and the
\* event loop may run another callback: there is no await in any of the
\* three bodies.
AwaitPoints == {}

\* One statement group of a callback, executed on the shared variables:
\*   makeGuess:  "issued"   -> stats.guesses++                   -> "counted"
\*               "counted"  -> const result = makeGuess(...),
\*                             const cluesRemaining = ...        -> "computed"
\*               "computed" -> gameState = result.gameState,
\*                             stats.correctGuesses++,
\*                             completedPuzzle = true            -> "returned"
\*   getHint:    "issued"   -> const result = getHint(...)       -> "computed"
\*               "computed" -> stats.hints++, gameState = ...    -> "returned"
\*   revealClue: "issued"   -> const result = revealClue(...)    -> "computed"
\*               "computed" -> stats.reveals++, gameState = ...,
\*                             completedPuzzle = true            -> "returned"
\* An engine call that throws ends the callback and the run.
CallbackStep(shared, frame, puzzle) ==
    LET Computed(result) ==
            IF result.threw
            THEN [shared |-> [shared EXCEPT !.pc = "error"],
                  frame |-> [frame EXCEPT !.at = "thrown", !.result = result]]
            ELSE [shared |-> shared,
                  frame |-> [frame EXCEPT
                      !.at = "computed",
                      !.result = result,
                      !.cluesRemaining =
                          Len(findActiveClues(result.gameState.displayState))]]
        result == frame.result
    IN  CASE frame.op = "makeGuess" /\ frame.at = "issued" ->
               [shared |-> [shared EXCEPT !.stats.guesses = @ + 1],
                frame |-> [frame EXCEPT !.at = "counted"]]
          [] frame.op = "makeGuess" /\ frame.at = "counted" ->
               Computed(makeGuess(frame.clue, frame.guess, shared.gameState, puzzle))
          [] frame.op = "makeGuess" /\ frame.at = "computed" ->
               [shared |-> [shared EXCEPT
                    !.gameState = result.gameState,
                    !.stats.correctGuesses = IF result.success THEN @ + 1 ELSE @,
                    !.completedPuzzle =
                        IF result.success /\ frame.cluesRemaining = 0
                        THEN TRUE ELSE @],
                frame |-> [frame EXCEPT !.at = "returned"]]
          [] frame.op = "getHint" /\ frame.at = "issued" ->
               Computed(getHint(frame.clue, shared.gameState, puzzle))
          [] frame.op = "getHint" /\ frame.at = "computed" ->
               [shared |-> IF result.success
                           THEN [shared EXCEPT !.stats.hints = @ + 1,
                                               !.gameState = result.gameState]
                           ELSE shared,
                frame |-> [frame EXCEPT !.at = "returned"]]
          [] frame.op = "revealClue" /\ frame.at = "issued" ->
               Computed(revealClue(frame.clue, shared.gameState, puzzle))
          [] frame.op = "revealClue" /\ frame.at = "computed" ->
               [shared |-> IF result.success
                           THEN [shared EXCEPT
                                    !.stats.reveals = @ + 1,
                                    !.gameState = result.gameState,
                                    !.completedPuzzle =
                                        IF frame.cluesRemaining = 0
                                        THEN TRUE ELSE @]
                           ELSE shared,
                frame |-> [frame EXCEPT !.at = "returned"]]

\* Callback i is in the middle of its body: it has started, has not ended,
\* and is not waiting at an await.
MidBody(i) ==
    toolCalls.frames[i].at \notin ({"issued"} \cup Ended \cup AwaitPoints)

\* The event loop can give callback i its next statements: it has not
\* ended, and no other callback is in the middle of its body (a callback
\* that has started keeps the thread until it awaits or returns).
CanRun(i) ==
    /\ i \in DOMAIN toolCalls.frames
    /\ toolCalls.frames[i].at \notin Ended
    /\ \A k \in DOMAIN toolCalls.frames : k # i => ~MidBody(k)

\* The model's response holds one or more tool calls; generateText will
\* invoke the callback of each of them.
IssueToolCalls ==
    /\ pc = "running"
    /\ toolCalls.frames = <<>>
    /\ \E n \in 1..(MaxBatch - calls) :
         \E batch \in [1..n -> ToolCallInputs] :
            toolCalls' = [start |-> Shared,
                          frames |-> [i \in 1..n |-> IssuedCall(batch[i])]]
    /\ call' = [op |-> "issue"]
    /\ UNCHANGED <<puzzleData, gameState, stats, completedPuzzle, pc, calls,
                   benchVars>>

\* Callback i executes its next statements.
RunCallback(i) ==
    /\ pc = "running"
    /\ CanRun(i)
    /\ LET step == CallbackStep(Shared, toolCalls.frames[i], puzzleData)
       IN  /\ gameState' = step.shared.gameState
           /\ stats' = step.shared.stats
           /\ completedPuzzle' = step.shared.completedPuzzle
           /\ pc' = step.shared.pc
           /\ toolCalls' = [toolCalls EXCEPT !.frames[i] = step.frame]
           /\ calls' = IF step.frame.at \in Ended THEN calls + 1 ELSE calls
    /\ call' = [op |-> "callback", frame |-> i]
    /\ UNCHANGED <<puzzleData, benchVars>>

\* Every callback of the step has returned.
AllReturned ==
    /\ toolCalls.frames # <<>>
    /\ \A i \in DOMAIN toolCalls.frames : toolCalls.frames[i].at = "returned"

\* generateText collects the results of the step's tool calls and goes on
\* to the next step.
SettleToolCalls ==
    /\ pc = "running"
    /\ AllReturned
    /\ toolCalls' = NoToolCalls
    /\ call' = [op |-> "settle"]
    /\ UNCHANGED <<puzzleData, gameState, stats, completedPuzzle, pc, calls,
                   benchVars>>

NextToolCalls ==
    \/ IssueToolCalls
    \/ \E i \in DOMAIN toolCalls.frames : RunCallback(i)
    \/ SettleToolCalls

InitToolCalls == InitRun(ToolCallPuzzles)

\* ------------------------------------------------------------------------
\* run-benchmarks main: the queue of solvePuzzleWithLLM invocations
\* ------------------------------------------------------------------------

MaxConcurrency == 2

MaxRunCalls == 2

MaxRunGuesses == 2

MaxTimestamp == 2

\* The values Date.now() may return when a guess is logged.  It is wall-clock
\* time: a later call may return an earlier value.
Timestamps == 1..MaxTimestamp

\* modelsToBench: one job per model for a puzzle date.  Every job of a date
\* is given the same puzzle object.
BenchModels == { "m1", "m2" }

\* The puzzle file of the date: "[a]b".
BenchPuzzles ==
    { Puzzle(<<"[", "a", "]", "b">>, (<<"a">> :> <<"A">>)) }

BenchClueInputs == { <<"a">> }

BenchGuessInputs == { <<" ", "A", " ">>, <<"x">> }

\* No result file exists yet, so every model's job is added to the queue.
InitBench ==
    /\ puzzleData \in BenchPuzzles
    /\ gameState = initializeGameState(puzzleData)
    /\ stats = [guesses |-> 0, correctGuesses |-> 0,
                totalClues |-> Cardinality(DOMAIN puzzleData.solutions),
                hints |-> 0, reveals |-> 0]
    /\ completedPuzzle = FALSE
    /\ pc = "main"
    /\ calls = 0
    /\ call = [op |-> "none"]
    /\ concurrency \in 1..MaxConcurrency
    /\ runs = [j \in BenchModels |-> [status |-> "queued"]]
    /\ files = <<>>
    /\ errors = {}
    /\ toolCalls = NoToolCalls

\* The jobs the queue is executing: their promise has not settled yet,
\* whether solvePuzzleWithLLM is running or the result file is being written.
RunningJobs ==
    { j \in BenchModels : runs[j].status \in {"running", "writing"} }

\* The locals of a solvePuzzleWithLLM invocation when it starts.
StartedRun(puzzle) ==
    [status |-> "running",
     gameState |-> initializeGameState(puzzle),
     stats |-> [guesses |-> 0, correctGuesses |-> 0,
                totalClues |-> Cardinality(DOMAIN puzzle.solutions),
                hints |-> 0, reveals |-> 0],
     modelGuesses |-> <<>>,
     completedPuzzle |-> FALSE,
     pc |-> "running",
     calls |-> 0]

\* The unchanged part of a step of the benchmark driver.
SingleRunUnchanged ==
    UNCHANGED <<puzzleData, gameState, stats, completedPuzzle, pc, calls,
                toolCalls>>

\* Whether the queue can take job j: it is waiting and fewer than
\* `concurrency` jobs are executing.
CanStart(j) ==
    /\ runs[j].status = "queued"
    /\ Cardinality(RunningJobs) < concurrency

\* The queue takes a job while fewer than `concurrency` jobs are executing;
\* the job calls solvePuzzleWithLLM(puzzle, model), which sets up its locals.
StartRun(j) ==
    /\ CanStart(j)
    /\ runs' = [runs EXCEPT ![j] = StartedRun(puzzleData)]
    /\ call' = [op |-> "start", job |-> j]
    /\ SingleRunUnchanged
    /\ UNCHANGED <<concurrency, files, errors>>

\* Whether job j's invocation can execute a tool callback.
CanCall(j) ==
    /\ runs[j].status = "running"
    /\ runs[j].pc = "running"
    /\ runs[j].calls < MaxRunCalls

\* The guess log entry pushed by the makeGuess callback.
GuessAttempt(clue, guess, success, timestamp) ==
    [expression |-> clue, guess |-> guess, success |-> success,
     timestamp |-> timestamp]

\* Variant: the statistics are one object shared by all invocations, so a
\* guess is counted in every started run.
RunMakeGuessSharedStats(j, clue, guess) ==
    /\ CanCall(j)
    /\ Len(runs[j].modelGuesses) < MaxRunGuesses
    /\ \E timestamp \in Timestamps :
       LET r == runs[j]
           result == makeGuess(clue, guess, r.gameState, puzzleData)
           cluesRemaining == Len(findActiveClues(result.gameState.displayState))
           Counted(k) == IF runs[k].status = "running"
                         THEN [runs[k] EXCEPT !.stats.guesses = @ + 1]
                         ELSE runs[k]
           others == [k \in BenchModels |-> Counted(k)]
           counted == [r.stats EXCEPT !.guesses = @ + 1]
       IN  runs' = [others EXCEPT ![j] =
                 IF result.threw
                 THEN [r EXCEPT !.stats = counted, !.pc = "error",
                                !.calls = @ + 1]
                 ELSE [r EXCEPT
                         !.stats = IF result.success
                                   THEN [counted EXCEPT !.correctGuesses = @ + 1]
                                   ELSE counted,
                         !.modelGuesses =
                             Append(@, GuessAttempt(clue, guess, result.success,
                                                  timestamp)),
                         !.gameState = result.gameState,
                         !.completedPuzzle =
                             IF result.success /\ cluesRemaining = 0
                             THEN TRUE ELSE @,
                         !.calls = @ + 1]]
    /\ call' = [op |-> "makeGuess", job |-> j]
    /\ SingleRunUnchanged
    /\ UNCHANGED <<concurrency, files, errors>>

\* tools.makeGuess.execute({ clue, guess }) of job j's invocation
RunMakeGuess(j, clue, guess) ==
    /\ CanCall(j)
    /\ Len(runs[j].modelGuesses) < MaxRunGuesses
    /\ \E timestamp \in Timestamps :
       LET r == runs[j]
           result == makeGuess(clue, guess, r.gameState, puzzleData)
           cluesRemaining == Len(findActiveClues(result.gameState.displayState))
           counted == [r.stats EXCEPT !.guesses = @ + 1]
       IN  runs' = [runs EXCEPT ![j] =
                 IF result.threw
                 THEN [r EXCEPT !.stats = counted, !.pc = "error",
                                !.calls = @ + 1]
                 ELSE [r EXCEPT
                         !.stats = IF result.success
                                   THEN [counted EXCEPT !.correctGuesses = @ + 1]
                                   ELSE counted,
                         !.modelGuesses =
                             Append(@, GuessAttempt(clue, guess, result.success,
                                                  timestamp)),
                         !.gameState = result.gameState,
                         !.completedPuzzle =
                             IF result.success /\ cluesRemaining = 0
                             THEN TRUE ELSE @,
                         !.calls = @ + 1]]
    /\ call' = [op |-> "makeGuess", job |-> j]
    /\ SingleRunUnchanged
    /\ UNCHANGED <<concurrency, files, errors>>

\* tools.getHint.execute({ clue }) of job j's invocation
RunGetHint(j, clue) ==
    /\ CanCall(j)
    /\ LET r == runs[j]
           result == getHint(clue, r.gameState, puzzleData)
       IN  runs' = [runs EXCEPT ![j] =
                 IF result.threw
                 THEN [r EXCEPT !.pc = "error", !.calls = @ + 1]
                 ELSE IF result.success
                 THEN [r EXCEPT !.stats.hints = @ + 1,
                                !.gameState = result.gameState,
                                !.calls = @ + 1]
                 ELSE [r EXCEPT !.calls = @ + 1]]
    /\ call' = [op |-> "getHint", job |-> j]
    /\ SingleRunUnchanged
    /\ UNCHANGED <<concurrency, files, errors>>

\* tools.revealClue.execute({ clue }) of job j's invocation
RunRevealClue(j, clue) ==
    /\ CanCall(j)
    /\ LET r == runs[j]
           result == revealClue(clue, r.gameState, puzzleData)
           cluesRemaining == Len(findActiveClues(result.gameState.displayState))
       IN  runs' = [runs EXCEPT ![j] =
                 IF result.success
                 THEN [r EXCEPT !.stats.reveals = @ + 1,
                                !.gameState = result.gameState,
                                !.completedPuzzle =
                                    IF cluesRemaining = 0 THEN TRUE ELSE @,
                                !.calls = @ + 1]
                 ELSE [r EXCEPT !.calls = @ + 1]]
    /\ call' = [op |-> "revealClue", job |-> j]
    /\ SingleRunUnchanged
    /\ UNCHANGED <<concurrency, files, errors>>

\* Array.prototype.sort with (a, b) => a.timestamp - b.timestamp, one
\* insertion: the sort is stable, so the entry goes behind the entries whose
\* timestamp is not greater.
InsertGuess(sorted, entry) ==
    LET before == { k \in 1..Len(sorted) :
                       \A i \in 1..k : sorted[i].timestamp <= entry.timestamp }
        n == Cardinality(before)
    IN  SubSeq(sorted, 1, n) \o <<entry>> \o SubSeq(sorted, n + 1, Len(sorted))

RECURSIVE SortGuesses(_)
\* const sortedGuesses = [...modelGuesses].sort(...)
SortGuesses(modelGuesses) ==
    IF modelGuesses = <<>>
    THEN <<>>
    ELSE InsertGuess(SortGuesses(SubSeq(modelGuesses, 1, Len(modelGuesses) - 1)),
                     modelGuesses[Len(modelGuesses)])

\* Variant: the guess log is written in the order the entries were pushed.
ResultDataUnsorted(j, puzzle, r) ==
    [model |-> j,
     puzzle |-> puzzle,
     result |-> RunResult(r.gameState, r.stats)
                   @@ [modelGuesses |-> r.modelGuesses]]

\* The `data` of the job's result file: the result solvePuzzleWithLLM
\* returns, its guess log sorted by timestamp.
ResultData(j, puzzle, r) ==
    [model |-> j,
     puzzle |-> puzzle,
     result |-> RunResult(r.gameState, r.stats)
                   @@ [modelGuesses |-> SortGuesses(r.modelGuesses)]]

\* generateText has returned: solvePuzzleWithLLM returns its result, the job
\* builds `data` and calls Bun.write.  The job keeps its place in the queue
\* until the write completes; no callback of this run can follow.
RunFinishes(j) ==
    /\ runs[j].status = "running"
    /\ runs[j].pc = "running"
    /\ runs' = [runs EXCEPT ![j] =
                  [status |-> "writing",
                   data |-> ResultData(j, puzzleData, runs[j])]]
    /\ call' = [op |-> "finish", job |-> j]
    /\ SingleRunUnchanged
    /\ UNCHANGED <<concurrency, files, errors>>

\* Bun.write completes: the result file exists and the job ends.
FileWritten(j) ==
    /\ runs[j].status = "writing"
    /\ files' = (j :> runs[j].data) @@ files
    /\ runs' = [runs EXCEPT ![j] = [status |-> "done"]]
    /\ call' = [op |-> "write", job |-> j]
    /\ SingleRunUnchanged
    /\ UNCHANGED <<concurrency, errors>>

\* Bun.write rejects: the job's catch reports it with console.error and the
\* job ends without a file.
WriteFails(j) ==
    /\ runs[j].status = "writing"
    /\ errors' = errors \cup {j}
    /\ runs' = [runs EXCEPT ![j] = [status |-> "failed"]]
    /\ call' = [op |-> "fail", job |-> j]
    /\ SingleRunUnchanged
    /\ UNCHANGED <<concurrency, files>>

\* Variant: a job that failed is put back on the queue.
RunFailsAndRetries(j) ==
    /\ runs[j].status = "running"
    /\ errors' = errors \cup {j}
    /\ runs' = [runs EXCEPT ![j] = [status |-> "queued"]]
    /\ call' = [op |-> "fail", job |-> j]
    /\ SingleRunUnchanged
    /\ UNCHANGED <<concurrency, files>>

\* generateText rejects (an error of the model provider, say):
\* solvePuzzleWithLLM rethrows, the job's catch reports it with
\* console.error, and the job ends without writing a file.
RunFails(j) ==
    /\ runs[j].status = "running"
    /\ errors' = errors \cup {j}
    /\ runs' = [runs EXCEPT ![j] = [status |-> "failed"]]
    /\ call' = [op |-> "fail", job |-> j]
    /\ SingleRunUnchanged
    /\ UNCHANGED <<concurrency, files>>

NextBench ==
    \/ \E j \in BenchModels : StartRun(j)
    \/ \E j \in BenchModels, clue \in BenchClueInputs,
          guess \in BenchGuessInputs : RunMakeGuess(j, clue, guess)
    \/ \E j \in BenchModels, clue \in BenchClueInputs : RunGetHint(j, clue)
    \/ \E j \in BenchModels, clue \in BenchClueInputs : RunRevealClue(j, clue)
    \/ \E j \in BenchModels : RunFinishes(j)
    \/ \E j \in BenchModels : FileWritten(j)
    \/ \E j \in BenchModels : WriteFails(j)
    \/ \E j \in BenchModels : RunFails(j)

\* ------------------------------------------------------------------------
\* The two parsers applied to a document
\* ------------------------------------------------------------------------

MaxDocLen == 7

DocChars == {"[", "]", "a"}

\* Every string over DocChars of at most MaxDocLen characters, balanced or not.
Documents == UNION { [1..n -> DocChars] : n \in 0..MaxDocLen }

\* A puzzle file per document; the parsers do not read the Answer Key.
ParsePuzzles == { Puzzle(doc, <<>>) : doc \in Documents }

InitParse == InitRun(ParsePuzzles)

\* The document parsed by both parsers: findActiveClues(displayState), as the
\* tool callbacks call it for cluesRemaining, and
\* findAvailableExpressions(gameState), as the final completion check calls it.
ParseDocument ==
    /\ pc = "running"
    /\ call.op = "none"
    /\ call' = [op |-> "parse",
                document |-> gameState.displayState,
                active |-> findActiveCluesOutcome(gameState.displayState),
                available |-> findAvailableExpressions(gameState)]
    /\ UNCHANGED <<puzzleData, gameState, stats, completedPuzzle, pc, calls,
                   benchVars, toolCalls>>

NextParse == ParseDocument

\* ------------------------------------------------------------------------
\* The nested-clue example document
\* ------------------------------------------------------------------------

\* "France"
France ==
    << "F", "r", "a", "n", "c", "e" >>

\* "the French government"
TheFrenchGovernment ==
    << "t", "h", "e", " ", "F", "r", "e", "n", "c", "h", " ", "g", "o", "v",
       "e", "r", "n", "m", "e", "n", "t" >>

\* "the seat of [the French government]"
TheSeatOfBracketed ==
    << "t", "h", "e", " ", "s", "e", "a", "t", " ", "o", "f", " ", "[", "t",
       "h", "e", " ", "F", "r", "e", "n", "c", "h", " ", "g", "o", "v", "e",
       "r", "n", "m", "e", "n", "t", "]" >>

\* "France's government"
FrancesGovernment ==
    << "F", "r", "a", "n", "c", "e", "'", "s", " ", "g", "o", "v", "e", "r",
       "n", "m", "e", "n", "t" >>

\* "the seat of France's government"
TheSeatOfFrancesGovernment ==
    << "t", "h", "e", " ", "s", "e", "a", "t", " ", "o", "f", " ", "F", "r",
       "a", "n", "c", "e", "'", "s", " ", "g", "o", "v", "e", "r", "n", "m",
       "e", "n", "t" >>

\* "Paris"
Paris ==
    << "P", "a", "r", "i", "s" >>

\* "The capital of [France] is [the seat of [the French government]]."
ExampleDocument ==
    << "T", "h", "e", " ", "c", "a", "p", "i", "t", "a", "l", " ", "o", "f",
       " ", "[", "F", "r", "a", "n", "c", "e", "]", " ", "i", "s", " ", "[",
       "t", "h", "e", " ", "s", "e", "a", "t", " ", "o", "f", " ", "[", "t",
       "h", "e", " ", "F", "r", "e", "n", "c", "h", " ", "g", "o", "v", "e",
       "r", "n", "m", "e", "n", "t", "]", "]", "." >>

\* "The capital of France is [the seat of [the French government]]."
ExampleDocumentFranceSolved ==
    << "T", "h", "e", " ", "c", "a", "p", "i", "t", "a", "l", " ", "o", "f",
       " ", "F", "r", "a", "n", "c", "e", " ", "i", "s", " ", "[", "t", "h",
       "e", " ", "s", "e", "a", "t", " ", "o", "f", " ", "[", "t", "h", "e",
       " ", "F", "r", "e", "n", "c", "h", " ", "g", "o", "v", "e", "r", "n",
       "m", "e", "n", "t", "]", "]", "." >>

ExamplePuzzle ==
    Puzzle(ExampleDocument,
           (France :> France)
           @@ (TheSeatOfBracketed :> Paris)
           @@ (TheFrenchGovernment :> FrancesGovernment))

ExampleClueInputs ==
    { France, TheFrenchGovernment, TheSeatOfFrancesGovernment }

\* "france " and "Paris"
ExampleGuessInputs ==
    { <<"f", "r", "a", "n", "c", "e", " ">>, Paris }

InitExample == InitRun({ExamplePuzzle})

NextExample ==
    \/ \E clue \in ExampleClueInputs, guess \in ExampleGuessInputs :
           ExecMakeGuess(clue, guess)
    \/ \E clue \in ExampleClueInputs : ExecGetHint(clue)
    \/ \E clue \in ExampleClueInputs : ExecRevealClue(clue)

\* ------------------------------------------------------------------------
\* calculateScore applied to the counts a run can end with
\* ------------------------------------------------------------------------

MaxCount == 7

\* n distinct expressions: "a", "aa", ...
ExpressionSet(n) == { [j \in 1..i |-> "a"] : i \in 1..n }

\* The state at the end of a run that hinted `hinted` and revealed `revealed`
\* distinct expressions.
ScoredGameState(hinted, revealed) ==
    [initializeGameState(Puzzle(<<>>, <<>>)) EXCEPT
        !.solvedExpressions = ExpressionSet(revealed),
        !.hintedExpressions = ExpressionSet(hinted),
        !.revealedExpressions = ExpressionSet(revealed)]

InitScore ==
    /\ puzzleData = Puzzle(<<>>, <<>>)
    /\ \E hinted, revealed \in 0..MaxCount :
           gameState = ScoredGameState(hinted, revealed)
    /\ \E guesses, correctGuesses \in 0..MaxCount :
           stats = [guesses |-> guesses, correctGuesses |-> correctGuesses,
                    totalClues |-> 0,
                    hints |-> Cardinality(gameState.hintedExpressions),
                    reveals |-> Cardinality(gameState.revealedExpressions)]
    /\ completedPuzzle = FALSE
    /\ pc = "running"
    /\ calls = 0
    /\ call = [op |-> "none"]
    /\ NoBenchmark
    /\ toolCalls = NoToolCalls

\* const scoreDetails = calculateScore(gameState, stats)
ComputeScore ==
    /\ pc = "running"
    /\ call.op = "none"
    /\ call' = [op |-> "calculateScore",
                scoreDetails |-> calculateScore(gameState, stats)]
    /\ UNCHANGED <<puzzleData, gameState, stats, completedPuzzle, pc, calls,
                   benchVars, toolCalls>>

NextScore == ComputeScore

\* ------------------------------------------------------------------------
\* calculateRank applied as calculateScore, its only caller, applies it
\* ------------------------------------------------------------------------

MaxRankCount == 7

\* The call calculateRank(finalScore, peekCount, megaPeekCount,
\* wrongGuessCount) inside calculateScore: the three counts are those of a
\* run's end and finalScore is derived from them,
\* Math.min(100, Math.max(0, baseScore - totalPenalty)).
ComputeRank ==
    /\ pc = "running"
    /\ call.op = "none"
    /\ \E peekCount \in 0..MaxRankCount,
          megaPeekCount \in 0..MaxRankCount,
          wrongGuessCount \in 0..MaxRankCount :
          LET config == getScoreConfig
              peekPenalty == peekCount * config.peekPenalty
              megaPeekPenalty == megaPeekCount * config.megaPeekPenalty
              wrongGuessPenalty == wrongGuessCount * config.wrongGuessPenalty
              baseScore == 100
              totalPenalty == peekPenalty + megaPeekPenalty + wrongGuessPenalty
              finalScore == Min(100, Max(0, baseScore - totalPenalty))
          IN  call' = [op |-> "calculateRank",
                       finalScore |-> finalScore,
                       peekCount |-> peekCount,
                       megaPeekCount |-> megaPeekCount,
                       wrongGuessCount |-> wrongGuessCount,
                       rank |-> calculateRank(finalScore, peekCount,
                                              megaPeekCount, wrongGuessCount)]
    /\ UNCHANGED <<puzzleData, gameState, stats, completedPuzzle, pc, calls,
                   benchVars, toolCalls>>

InitRank == InitRun({ Puzzle(<<>>, <<>>) })

NextRank == ComputeRank

\* ------------------------------------------------------------------------
\* Vocabulary of the properties (stated apart from the engine's own parsers)
\* ------------------------------------------------------------------------

\* The active clues of a document as the data model defines them: the spans
\* <<start, end>> (0-based, end exclusive) that open with '[', close with ']'
\* and have no bracket in between.
ActiveSpans(doc) ==
    { sp \in (0..Len(doc)) \X (0..Len(doc)) :
        /\ sp[1] + 2 <= sp[2]
        /\ doc[sp[1] + 1] = "["
        /\ doc[sp[2]] = "]"
        /\ \A k \in (sp[1] + 2)..(sp[2] - 1) : doc[k] \notin {"[", "]"} }

SpanExpression(doc, sp) == SubSeq(doc, sp[1] + 2, sp[2] - 1)

ActiveExpressions(doc) == { SpanExpression(doc, sp) : sp \in ActiveSpans(doc) }

\* The span of a non-empty set that comes first in document order.
FirstSpan(spans) == CHOOSE sp \in spans : \A other \in spans : sp[1] <= other[1]

\* doc with the span sp (brackets included) replaced by text.
ReplaceSpan(doc, sp, text) ==
    SubSeq(doc, 1, sp[1]) \o text \o SubSeq(doc, sp[2] + 1, Len(doc))

HasKeyEntry(expression) == expression \in DOMAIN puzzleData.solutions

\* Opening minus closing brackets among the first n characters of doc.
Depth(doc, n) ==
    Cardinality({ k \in 1..n : doc[k] = "[" })
    - Cardinality({ k \in 1..n : doc[k] = "]" })

\* A well-formed document: no prefix closes more brackets than it opened, and
\* every bracket opened is closed.
WellFormed(doc) ==
    /\ \A n \in 0..Len(doc) : Depth(doc, n) >= 0
    /\ Depth(doc, Len(doc)) = 0

\* The elements of a sequence.
Elements(seq) == { seq[k] : k \in 1..Len(seq) }

\* Lower-cased and trimmed.
Normalised(text) == trim(toLowerCase(text))

\* The active spans of doc whose Answer Key solution the guess text equals,
\* both lower-cased and trimmed.
MatchingSpans(doc, guess) ==
    { sp \in ActiveSpans(doc) :
        /\ HasKeyEntry(SpanExpression(doc, sp))
        /\ Normalised(guess) =
              Normalised(puzzleData.solutions[SpanExpression(doc, sp)]) }

\* The active spans of doc whose expression is the given one.
SpansOf(doc, expression) ==
    { sp \in ActiveSpans(doc) : SpanExpression(doc, sp) = expression }

IsMsgNoActive(message, expression) == message = MsgNoActive(expression)
IsMsgNoSolution(message, expression) == message = MsgNoSolution(expression)

\* ------------------------------------------------------------------------
\* Properties
\* ------------------------------------------------------------------------

\* C1: makeGuess succeeds exactly when the guess, lower-cased and trimmed,
\* equals the lower-cased and trimmed solution of some active clue; the clue
\* it resolves is the first such clue in document order, whichever clue the
\* `expression` argument names.
C1_GuessMatchesFirstActiveClue ==
    call.op = "makeGuess" =>
        LET doc == call.pre.displayState
            matching == MatchingSpans(doc, call.guess)
        IN  /\ call.result.success <=> matching # {}
            /\ call.result.success =>
                  LET first == FirstSpan(matching)
                      resolved == SpanExpression(doc, first)
                  IN  /\ call.result.message =
                            MsgCorrect(resolved, puzzleData.solutions[resolved])
                      /\ Len(gameState.displayState) =
                            Len(doc) - (first[2] - first[1])
                              + Len(puzzleData.solutions[resolved])
                      /\ SubSeq(gameState.displayState, 1, first[1]) =
                            SubSeq(doc, 1, first[1])
                      /\ resolved \in gameState.solvedExpressions

\* C1 witness: a guess that differs from the stored solution in case and
\* padding matches two active clues, names the second, and resolves the first.
C1_Witness ==
    /\ call.op = "makeGuess"
    /\ call.result.success
    /\ LET doc == call.pre.displayState
           matching == MatchingSpans(doc, call.guess)
       IN  /\ Cardinality(matching) >= 2
           /\ call.expression # SpanExpression(doc, FirstSpan(matching))
           /\ call.expression \in ActiveExpressions(doc)
           /\ call.guess #
                 puzzleData.solutions[SpanExpression(doc, FirstSpan(matching))]

\* C2: a successful makeGuess replaces exactly the matched clue's span,
\* brackets included, by the solution as the Answer Key stores it (not the
\* guess text), adds the matched expression to solvedExpressions, recomputes
\* activeClues from the new displayState, and leaves hintedExpressions,
\* revealedExpressions and totalClues as they were.
C2_GuessSuccessEffect ==
    (call.op = "makeGuess" /\ call.result.success) =>
        LET doc == call.pre.displayState
            first == FirstSpan(MatchingSpans(doc, call.guess))
            resolved == SpanExpression(doc, first)
            newDoc == ReplaceSpan(doc, first, puzzleData.solutions[resolved])
        IN  /\ gameState.displayState = newDoc
            /\ gameState.solvedExpressions =
                  call.pre.solvedExpressions \cup {resolved}
            /\ gameState.activeClues = findActiveClues(newDoc)
            /\ { c.expression : c \in
                    { gameState.activeClues[i] : i \in 1..Len(gameState.activeClues) } }
                  = ActiveExpressions(newDoc)
            /\ gameState.hintedExpressions = call.pre.hintedExpressions
            /\ gameState.revealedExpressions = call.pre.revealedExpressions
            /\ gameState.totalClues = call.pre.totalClues
            /\ call.result.gameState = gameState

\* C2 witness: a successful guess whose text is not the stored solution, on a
\* state that already has a hinted and a revealed expression.
C2_Witness ==
    /\ call.op = "makeGuess"
    /\ call.result.success
    /\ call.pre.hintedExpressions # {}
    /\ call.pre.revealedExpressions # {}
    /\ LET doc == call.pre.displayState
           resolved == SpanExpression(doc, FirstSpan(MatchingSpans(doc, call.guess)))
       IN  call.guess # puzzleData.solutions[resolved]

\* C3 as claimed: a makeGuess that targets an expression with no Answer Key
\* entry always fails, with a "no active clue" or "no solution" message, and
\* leaves displayState as it was, whatever the guess text and whatever other
\* clues are active.
C3_KeylessTargetAlwaysFails ==
    (call.op = "makeGuess" /\ ~HasKeyEntry(call.expression)) =>
        /\ ~call.result.success
        /\ \/ IsMsgNoActive(call.result.message, call.expression)
           \/ IsMsgNoSolution(call.result.message, call.expression)
        /\ gameState.displayState = call.pre.displayState

\* C3 amended: a makeGuess that targets an expression with no Answer Key
\* entry, with a guess text that matches the solution of no active clue,
\* fails with the "No active bracketed clue found" message and leaves
\* displayState as it was; with a guess text that matches the solution of an
\* active clue it succeeds.
C3_KeylessTargetFailsUnlessGuessMatches ==
    (call.op = "makeGuess" /\ ~HasKeyEntry(call.expression)) =>
        IF MatchingSpans(call.pre.displayState, call.guess) = {}
        THEN /\ ~call.result.success
             /\ IsMsgNoActive(call.result.message, call.expression)
             /\ gameState.displayState = call.pre.displayState
             /\ call.result.gameState.displayState = call.pre.displayState
        ELSE call.result.success

\* C3 witness: the target is an active clue without Answer Key entry, another
\* active clue has one, and the guess matches nothing.
C3_Witness ==
    /\ call.op = "makeGuess"
    /\ ~HasKeyEntry(call.expression)
    /\ call.expression \in ActiveExpressions(call.pre.displayState)
    /\ \E e \in ActiveExpressions(call.pre.displayState) : HasKeyEntry(e)
    /\ MatchingSpans(call.pre.displayState, call.guess) = {}
    /\ ~call.result.success

\* C4: when makeGuess matches no active clue, the outcome is a failure: with
\* "Incorrect guess" if `expression` names an active clue that has an Answer
\* Key entry, with "No active bracketed clue found" in every other case.
C4_NoMatchOutcome ==
    (call.op = "makeGuess"
     /\ MatchingSpans(call.pre.displayState, call.guess) = {}) =>
        /\ ~call.result.success
        /\ IF /\ call.expression \in ActiveExpressions(call.pre.displayState)
              /\ HasKeyEntry(call.expression)
           THEN call.result.message = MsgIncorrect(call.guess, call.expression)
           ELSE call.result.message = MsgNoActive(call.expression)

\* C4 witness: an incorrect guess on an active clue that has an entry.
C4_Witness ==
    /\ call.op = "makeGuess"
    /\ MatchingSpans(call.pre.displayState, call.guess) = {}
    /\ call.expression \in ActiveExpressions(call.pre.displayState)
    /\ HasKeyEntry(call.expression)
    /\ call.result.message = MsgIncorrect(call.guess, call.expression)

\* C5: every failed makeGuess, getHint or revealClue returns the input state
\* unchanged in all its fields, and no action ends in an exception instead of
\* a success/failure outcome.
C5_FailureLeavesStateAndNeverThrows ==
    call.op \in {"makeGuess", "getHint", "revealClue"} =>
        /\ ~call.result.threw
        /\ ~call.result.success =>
              /\ call.result.gameState = call.pre
              /\ gameState = call.pre

\* C6: getHint and revealClue fail with "No active bracketed clue found" when
\* `expression` is not the expression of an active clue, otherwise with "No
\* solution found" when the Answer Key has no entry for it, and otherwise
\* succeed.
C6_HintRevealPreconditionOrder ==
    call.op \in {"getHint", "revealClue"} =>
        IF call.expression \notin ActiveExpressions(call.pre.displayState)
        THEN /\ ~call.result.success
             /\ call.result.message = MsgNoActive(call.expression)
        ELSE IF ~HasKeyEntry(call.expression)
        THEN /\ ~call.result.success
             /\ call.result.message = MsgNoSolution(call.expression)
        ELSE call.result.success

\* C6 witness: a hint asked for an expression that is neither active nor in
\* the Answer Key is answered by the first check, "No active bracketed clue
\* found".
C6_Witness ==
    /\ call.op = "getHint"
    /\ call.expression \notin ActiveExpressions(call.pre.displayState)
    /\ ~HasKeyEntry(call.expression)
    /\ call.result.message = MsgNoActive(call.expression)

\* C7: a successful getHint returns the first character of the clue's Answer
\* Key solution as the hint, adds `expression` to hintedExpressions, and
\* leaves displayState, solvedExpressions, revealedExpressions, activeClues
\* and totalClues as they were.
C7_HintSuccessEffect ==
    (call.op = "getHint" /\ call.result.success) =>
        /\ call.result.hint = <<puzzleData.solutions[call.expression][1]>>
        /\ gameState.hintedExpressions =
              call.pre.hintedExpressions \cup {call.expression}
        /\ gameState.displayState = call.pre.displayState
        /\ gameState.solvedExpressions = call.pre.solvedExpressions
        /\ gameState.revealedExpressions = call.pre.revealedExpressions
        /\ gameState.activeClues = call.pre.activeClues
        /\ gameState.totalClues = call.pre.totalClues
        /\ call.result.gameState = gameState

\* C7 witness: a first hint on a clue whose stored solution starts with a
\* blank, on a state where a clue has already been solved.
C7_Witness ==
    /\ call.op = "getHint"
    /\ call.result.success
    /\ call.expression \notin call.pre.hintedExpressions
    /\ call.pre.solvedExpressions # {}
    /\ call.result.hint = <<" ">>

\* C8: hinting an active expression that has been hinted before leaves
\* hintedExpressions, and the hint penalty calculateScore derives from it,
\* what they were after the first hint.
C8_HintIdempotent ==
    (call.op = "getHint" /\ call.result.success
     /\ call.expression \in call.pre.hintedExpressions) =>
        /\ gameState.hintedExpressions = call.pre.hintedExpressions
        /\ calculateScore(gameState, stats).peekPenalty =
              calculateScore(call.pre, call.preStats).peekPenalty
        /\ calculateScore(gameState, stats).peekPenalty =
              5 * Cardinality(gameState.hintedExpressions)
        /\ calculateScore(gameState, stats).finalScore =
              calculateScore(call.pre, call.preStats).finalScore

\* C8 witness: the third successful hint of a run, all on one expression.
C8_Witness ==
    /\ call.op = "getHint"
    /\ call.result.success
    /\ call.expression \in call.pre.hintedExpressions
    /\ stats.hints >= 3
    /\ Cardinality(gameState.hintedExpressions) = 1

\* C9: a successful revealClue replaces the first active span whose
\* expression is `expression` by its Answer Key solution, as the success path
\* of makeGuess does for that clue, adds `expression` to solvedExpressions and
\* to revealedExpressions, recomputes activeClues, and leaves
\* hintedExpressions and totalClues as they were.
C9_RevealSuccessEffect ==
    (call.op = "revealClue" /\ call.result.success) =>
        LET doc == call.pre.displayState
            first == FirstSpan(SpansOf(doc, call.expression))
            solution == puzzleData.solutions[call.expression]
            newDoc == ReplaceSpan(doc, first, solution)
            asGuess == GuessUpdate(call.pre,
                                   [expression |-> call.expression,
                                    startIndex |-> first[1],
                                    endIndex |-> first[2]],
                                   solution)
        IN  /\ gameState.displayState = newDoc
            /\ gameState.displayState = asGuess.displayState
            /\ gameState.solvedExpressions =
                  call.pre.solvedExpressions \cup {call.expression}
            /\ gameState.solvedExpressions = asGuess.solvedExpressions
            /\ gameState.revealedExpressions =
                  call.pre.revealedExpressions \cup {call.expression}
            /\ gameState.activeClues = findActiveClues(newDoc)
            /\ gameState.hintedExpressions = call.pre.hintedExpressions
            /\ gameState.totalClues = call.pre.totalClues
            /\ call.result.solution = solution

\* C9 witness: a reveal of an expression that two active clues carry, on a
\* state with a hinted expression.
C9_Witness ==
    /\ call.op = "revealClue"
    /\ call.result.success
    /\ Cardinality(SpansOf(call.pre.displayState, call.expression)) = 2
    /\ call.pre.hintedExpressions # {}

\* C10: when a revealClue has succeeded and its expression is no longer
\* active, a second revealClue of the same expression fails, leaves
\* revealedExpressions as it was, and raises neither the reveal count nor the
\* reveal penalty.
C10_SecondRevealFails ==
    [][ ( /\ call.op = "revealClue"
          /\ call.result.success
          /\ call.expression \notin ActiveExpressions(gameState.displayState)
          /\ calls' = calls + 1
          /\ call'.op = "revealClue"
          /\ call'.expression = call.expression )
        => ( /\ ~call'.result.success
             /\ gameState'.revealedExpressions = gameState.revealedExpressions
             /\ call.expression \in gameState'.revealedExpressions
             /\ gameState' = gameState
             /\ stats'.reveals = stats.reveals
             /\ calculateScore(gameState', stats').megaPeekPenalty =
                   calculateScore(gameState, stats).megaPeekPenalty ) ]_vars

\* C10 witness: a failed revealClue of an expression that is in
\* revealedExpressions and is not active.
C10_Witness ==
    /\ call.op = "revealClue"
    /\ ~call.result.success
    /\ call.expression \in call.pre.revealedExpressions
    /\ call.expression \notin ActiveExpressions(call.pre.displayState)
    /\ HasKeyEntry(call.expression)

\* C11: over any sequence of makeGuess, getHint and revealClue calls, none of
\* solvedExpressions, hintedExpressions and revealedExpressions ever loses a
\* member: each set after a call contains the set before it.
C11_TrackingSetsOnlyGrow ==
    [][ /\ gameState.solvedExpressions \subseteq gameState'.solvedExpressions
        /\ gameState.hintedExpressions \subseteq gameState'.hintedExpressions
        /\ gameState.revealedExpressions \subseteq gameState'.revealedExpressions
      ]_vars

\* A second clue was solved by a guess after one was revealed and one hinted:
\* all three sets have members and solvedExpressions has kept its first one.
C11_Witness ==
    /\ call.op = "makeGuess"
    /\ call.result.success
    /\ call.pre.solvedExpressions # {}
    /\ call.pre.hintedExpressions # {}
    /\ call.pre.revealedExpressions # {}
    /\ call.pre.solvedExpressions \subseteq gameState.solvedExpressions
    /\ Cardinality(gameState.solvedExpressions) = 2

\* C12 as claimed: in every reachable puzzle state the three tracking sets
\* are pairwise disjoint.
C12_TrackingSetsPairwiseDisjoint ==
    /\ gameState.solvedExpressions \cap gameState.hintedExpressions = {}
    /\ gameState.solvedExpressions \cap gameState.revealedExpressions = {}
    /\ gameState.hintedExpressions \cap gameState.revealedExpressions = {}

\* C12: the three tracking sets are not disjoint.  revealClue puts its
\* expression in both solvedExpressions and revealedExpressions, so in every
\* reachable state revealedExpressions is a subset of solvedExpressions, and
\* the three sets are pairwise disjoint exactly when nothing has been revealed
\* and no hinted expression has been solved.
C12_RevealedWithinSolved ==
    /\ gameState.revealedExpressions \subseteq gameState.solvedExpressions
    /\ C12_TrackingSetsPairwiseDisjoint
         <=> /\ gameState.revealedExpressions = {}
             /\ gameState.hintedExpressions \cap gameState.solvedExpressions = {}

\* A hinted clue was revealed: its expression is in all three sets.
C12_Witness ==
    /\ call.op = "revealClue"
    /\ call.result.success
    /\ call.expression \in call.pre.hintedExpressions
    /\ call.expression \in gameState.solvedExpressions
    /\ call.expression \in gameState.revealedExpressions
    /\ call.expression \in gameState.hintedExpressions

\* C13: for every well-formed document, whatever its nesting depth,
\* findActiveClues returns exactly the bracketed spans whose inner text has
\* no bracket (the innermost ones, wherever they are nested), each with
\* start and end such that document.substring(start, end) is its text and
\* equals '[' + expression + ']'; it never returns an enclosing span.
C13_ActiveCluesAreInnermostSpans ==
    (call.op = "parse" /\ WellFormed(call.document)) =>
        LET doc == call.document
            clues == call.active.clues
        IN  /\ ~call.active.threw
            /\ { <<c.start, c.end>> : c \in Elements(clues) } = ActiveSpans(doc)
            /\ \A c \in Elements(clues) :
                  /\ c.text = Slice(doc, c.start, c.end)
                  /\ c.text = <<"[">> \o c.expression \o <<"]">>
                  /\ \A k \in 1..Len(c.expression) :
                        c.expression[k] \notin {"[", "]"}

\* A well-formed document parsed whose active clue lies inside two enclosing
\* groups, as in "[[[a]]]".
C13_Witness ==
    /\ call.op = "parse"
    /\ WellFormed(call.document)
    /\ \E c \in Elements(call.active.clues) :
          /\ Depth(call.document, c.start) = 2
          /\ c.expression # <<>>

\* C14 as claimed: findActiveClues fails with a structural error, instead of
\* returning clues, whenever its input has unbalanced brackets (a '[' never
\* closed or a ']' never opened).
C14_UnbalancedInputIsRejected ==
    (call.op = "parse" /\ ~WellFormed(call.document)) => call.active.threw

\* C15 as claimed: for every well-formed document findActiveClues and
\* findAvailableExpressions yield the same sequence of (start, end,
\* expression), so the clue count of `cluesRemaining` and the clue count of
\* the final completion check agree.
C15_ParsersAgree ==
    (call.op = "parse" /\ WellFormed(call.document)) =>
        /\ [k \in 1..Len(call.active.clues) |->
               << call.active.clues[k].start,
                  call.active.clues[k].end,
                  call.active.clues[k].expression >>]
           = [k \in 1..Len(call.available) |->
               << call.available[k].startIndex,
                  call.available[k].endIndex,
                  call.available[k].expression >>]
        /\ Len(call.active.clues) = Len(call.available)

\* C16: for every well-formed document the clues of findActiveClues come in
\* strictly increasing start order, their [start, end) windows do not
\* overlap, and no window is returned twice.
C16_CluesOrderedAndApart ==
    (call.op = "parse" /\ WellFormed(call.document)) =>
        LET clues == call.active.clues
        IN  /\ \A k \in 1..(Len(clues) - 1) :
                  /\ clues[k].start < clues[k + 1].start
                  /\ clues[k].end <= clues[k + 1].start
            /\ \A j, k \in 1..Len(clues) :
                  (j # k) =>
                      << clues[j].start, clues[j].end >>
                          # << clues[k].start, clues[k].end >>

\* A well-formed document parsed with two active clues, the first of them
\* nested inside a group and the second after that group, as in "[[a]][]".
C16_Witness ==
    /\ call.op = "parse"
    /\ WellFormed(call.document)
    /\ Len(call.active.clues) >= 2
    /\ Depth(call.document, call.active.clues[1].start) = 1
    /\ Depth(call.document, call.active.clues[2].start) = 0

\* The expressions of a clue list, in list order.
Expressions(clues) == [k \in 1..Len(clues) |-> clues[k].expression]

\* The makeGuess call that resolved "France" in the untouched example document.
FranceGuessedFirst ==
    /\ puzzleData = ExamplePuzzle
    /\ call.op = "makeGuess"
    /\ call.result.success
    /\ call.pre = initializeGameState(puzzleData)
    /\ France \in gameState.solvedExpressions

\* C17 as claimed: for the example document the initial active clues are
\* exactly ["France"], the nested bracket group contributing none, and after
\* a correct guess of "France" the re-parse exposes the previously nested
\* clue as active.
C17_OnlyFranceActiveAtStart ==
    /\ (puzzleData = ExamplePuzzle /\ calls = 0) =>
           Expressions(gameState.activeClues) = << France >>
    /\ FranceGuessedFirst =>
           TheFrenchGovernment \in Elements(Expressions(gameState.activeClues))

\* C17: for the example document the initial active clues are "France" and
\* "the French government": the innermost clue of the nested group is active
\* from the start and only the group that encloses it is not.  After a
\* correct guess of "France" the active clues are exactly
\* ["the French government"], and once that clue is resolved the re-parse
\* exposes the group that enclosed it, now "the seat of France's
\* government", as active.
C17_InnermostActiveFromStart ==
    /\ (puzzleData = ExamplePuzzle /\ calls = 0) =>
           Expressions(gameState.activeClues) = << France, TheFrenchGovernment >>
    /\ FranceGuessedFirst =>
           /\ gameState.displayState = ExampleDocumentFranceSolved
           /\ Expressions(gameState.activeClues) = << TheFrenchGovernment >>
    /\ (puzzleData = ExamplePuzzle
          /\ TheFrenchGovernment \in gameState.solvedExpressions) =>
           /\ TheSeatOfFrancesGovernment
                  \in Elements(Expressions(gameState.activeClues))
           /\ TheFrenchGovernment
                  \notin Elements(Expressions(gameState.activeClues))

\* "France" guessed first, then "the French government" resolved: the
\* enclosing group is the only active clue left.
C17_Witness ==
    /\ puzzleData = ExamplePuzzle
    /\ France \in gameState.solvedExpressions \ gameState.revealedExpressions
    /\ TheFrenchGovernment \in gameState.solvedExpressions
    /\ Expressions(gameState.activeClues) = << TheSeatOfFrancesGovernment >>

\* The number of bracket characters in a document.
BracketCount(doc) == Cardinality({ k \in 1..Len(doc) : doc[k] \in {"[", "]"} })

\* The last call resolved a clue: a correct makeGuess or a successful revealClue.
ResolvedByCall ==
    /\ call.op \in {"makeGuess", "revealClue"}
    /\ call.result.success

\* C18 as claimed: every successful resolution strictly decreases the number
\* of brackets in displayState, a resolution is possible as long as an active
\* clue remains, and a displayState with nothing left to resolve contains no
\* brackets.
C18_ResolutionAlwaysPossible ==
    /\ ResolvedByCall =>
           BracketCount(gameState.displayState)
               < BracketCount(call.pre.displayState)
    /\ (ActiveSpans(gameState.displayState) # {}) =>
           \E e \in ActiveExpressions(gameState.displayState) :
               revealClue(e, gameState, puzzleData).success
    /\ (ActiveSpans(gameState.displayState) = {}) =>
           BracketCount(gameState.displayState) = 0

\* C18: every successful resolution removes exactly one bracket pair from
\* displayState (the solution texts hold no bracket), so the bracket count
\* strictly decreases and there are at most half as many resolutions as the
\* puzzle has brackets; an active clue can be resolved, by revealClue or by a
\* guess of its solution, when the Answer Key has a solution for its
\* expression, and by no action when it has none; a displayState with no
\* active clue left contains no brackets.
C18_ResolutionRemovesOnePair ==
    /\ ResolvedByCall =>
           BracketCount(gameState.displayState)
               = BracketCount(call.pre.displayState) - 2
    /\ BracketCount(gameState.displayState)
           = BracketCount(puzzleData.initialPuzzle)
               - 2 * (stats.correctGuesses + stats.reveals)
    /\ \A e \in ActiveExpressions(gameState.displayState) :
           IF HasKeyEntry(e)
           THEN /\ revealClue(e, gameState, puzzleData).success
                /\ makeGuess(e, puzzleData.solutions[e],
                             gameState, puzzleData).success
           ELSE /\ ~revealClue(e, gameState, puzzleData).success
                /\ \A guess \in GuessInputs :
                       LET result == makeGuess(e, guess, gameState, puzzleData)
                       IN  result.success =>
                               e \in ActiveExpressions(result.gameState.displayState)
    /\ (ActiveSpans(gameState.displayState) = {}) =>
           BracketCount(gameState.displayState) = 0

\* The third resolution in a row emptied a puzzle of three bracket pairs.
C18_Witness ==
    /\ ResolvedByCall
    /\ BracketCount(puzzleData.initialPuzzle) = 6
    /\ stats.correctGuesses + stats.reveals = 3
    /\ stats.correctGuesses > 0
    /\ stats.reveals > 0
    /\ BracketCount(gameState.displayState) = 0
    /\ ActiveSpans(gameState.displayState) = {}

\* C19: calculateScore returns finalScore = min(100, max(0, 100 - (5 * the
\* number of hinted expressions + 15 * the number of revealed expressions
\* + 2 * max(0, guesses - correctGuesses)))), with baseScore = 100 and
\* totalPenalty the sum of the three penalties; finalScore is an integer
\* from 0 to 100 for all non-negative counts.
C19_FinalScoreFormula ==
    (call.op = "calculateScore") =>
        LET details == call.scoreDetails
            hinted == Cardinality(gameState.hintedExpressions)
            revealed == Cardinality(gameState.revealedExpressions)
            wrong == IF stats.guesses > stats.correctGuesses
                     THEN stats.guesses - stats.correctGuesses ELSE 0
            raw == 100 - (5 * hinted + 15 * revealed + 2 * wrong)
        IN  /\ details.baseScore = 100
            /\ details.peekPenalty = 5 * hinted
            /\ details.megaPeekPenalty = 15 * revealed
            /\ details.wrongGuessPenalty = 2 * wrong
            /\ details.totalPenalty =
                   details.peekPenalty + details.megaPeekPenalty
                   + details.wrongGuessPenalty
            /\ details.finalScore =
                   (IF raw < 0 THEN 0 ELSE IF raw > 100 THEN 100 ELSE raw)
            /\ details.finalScore \in 0..100

\* A score computed where all three penalties apply and their sum exceeds
\* 100, so the floor at 0 is what decides the result.
C19_Witness ==
    /\ call.op = "calculateScore"
    /\ call.scoreDetails.peekPenalty > 0
    /\ call.scoreDetails.megaPeekPenalty > 0
    /\ call.scoreDetails.wrongGuessPenalty > 0
    /\ call.scoreDetails.totalPenalty > 100
    /\ call.scoreDetails.finalScore = 0

\* C20 as claimed: the score of a completed run is max(0, 100 - 5 * (the
\* number of successful getHint calls) - 15 * (the number of successful
\* revealClue calls) - 2 * (the number of unsuccessful makeGuess calls)),
\* whatever the sequence of calls.
C20_ScoreChargesEveryCall ==
    FinalCompletedPuzzle =>
        LET byCalls == 100 - 5 * stats.hints - 15 * stats.reveals
                           - 2 * (stats.guesses - stats.correctGuesses)
        IN  FinalReportedScore = (IF byCalls < 0 THEN 0 ELSE byCalls)

\* The rank table as the data model gives it: the rank whose band holds score.
TableRank(score) ==
    CASE score >= 100 -> "Puppet Master"
      [] score >= 91 /\ score < 100 -> "Kingmaker"
      [] score >= 79 /\ score < 91 -> "Power Broker"
      [] score >= 68 /\ score < 79 -> "Mayor"
      [] score >= 51 /\ score < 68 -> "Chief of Police"
      [] score >= 31 /\ score < 51 -> "Council Member"
      [] score >= 21 /\ score < 31 -> "Resident"
      [] score >= 11 /\ score < 21 -> "Commuter"
      [] score < 11 -> "Tourist"

\* The call had a perfect score and no help: the Puppet Master special case.
PerfectNoHelp ==
    /\ call.finalScore = 100
    /\ call.peekCount = 0
    /\ call.megaPeekCount = 0
    /\ call.wrongGuessCount = 0

\* C21: outside the Puppet Master special case, the rank returned for a
\* finalScore from 0 to 100 is the entry of the table Tourist(0),
\* Commuter(11), Resident(21), Council Member(31), Chief of Police(51),
\* Mayor(68), Power Broker(79), Kingmaker(91), Puppet Master(100) with the
\* highest threshold not above finalScore; zero penalties give 100 and
\* "Puppet Master", two hints give 90 and "Power Broker".
C21_RankIsHighestThresholdReached ==
    /\ (call.op = "calculateRank" /\ ~PerfectNoHelp) =>
           call.rank = TableRank(call.finalScore)
    /\ LET none == calculateScore(ScoredGameState(0, 0),
                                  [guesses |-> 0, correctGuesses |-> 0])
           twoHints == calculateScore(ScoredGameState(2, 0),
                                      [guesses |-> 0, correctGuesses |-> 0])
       IN  /\ none.finalScore = 100
           /\ none.rank = "Puppet Master"
           /\ twoHints.finalScore = 90
           /\ twoHints.rank = "Power Broker"

\* calculateRank called with the score of two hints and nothing else.
C21_Witness ==
    /\ call.op = "calculateRank"
    /\ call.finalScore = 90
    /\ call.peekCount = 2
    /\ call.megaPeekCount = 0
    /\ call.wrongGuessCount = 0
    /\ call.rank = "Power Broker"

RankAbove(rank) ==
    CASE rank = "Tourist" -> "Commuter"
      [] rank = "Commuter" -> "Resident"
      [] rank = "Resident" -> "Council Member"
      [] rank = "Council Member" -> "Chief of Police"
      [] rank = "Chief of Police" -> "Mayor"
      [] rank = "Mayor" -> "Power Broker"
      [] rank = "Power Broker" -> "Kingmaker"
      [] rank = "Kingmaker" -> "Puppet Master"
      [] rank = "Puppet Master" -> Null

\* C23: for every input of calculateScore, nextRankName is the rank with the
\* smallest threshold above the current rank's threshold and
\* pointsToNextRank is that threshold minus finalScore, never negative; at
\* the top rank "Puppet Master" nextRankName is null and pointsToNextRank 0.
C23_NextRankAndGap ==
    (call.op = "calculateScore") =>
        LET details == call.scoreDetails
            thresholds == getScoreConfig.rankThresholds
            above == { r \in DOMAIN thresholds :
                         thresholds[r] > thresholds[details.rank] }
        IN  /\ details.nextRankName = RankAbove(details.rank)
            /\ IF details.rank = "Puppet Master"
               THEN /\ above = {}
                    /\ details.nextRankName = Null
                    /\ details.pointsToNextRank = 0
               ELSE /\ details.nextRankName \in above
                    /\ \A r \in above :
                          thresholds[details.nextRankName] <= thresholds[r]
                    /\ details.pointsToNextRank
                          = thresholds[details.nextRankName] - details.finalScore
                    /\ details.pointsToNextRank > 0

\* A score of 70 computed: rank "Mayor", next rank "Power Broker", 9 points away.
C23_Witness ==
    /\ call.op = "calculateScore"
    /\ call.scoreDetails.finalScore = 70
    /\ call.scoreDetails.rank = "Mayor"
    /\ call.scoreDetails.nextRankName = "Power Broker"
    /\ call.scoreDetails.pointsToNextRank = 9

\* C24 as claimed: when a run ends with active clues still in displayState
\* its result has success = false, score = 0 and rank = "Tourist", whatever
\* the computed finalScore; when it ends with no active clue, success = true
\* and score and rank are the computed finalScore and rank.
C24_CompletionGate ==
    (call.op = "finish") =>
        LET computed == calculateScore(call.pre, call.preStats)
        IN  IF ActiveSpans(call.pre.displayState) # {}
            THEN /\ call.result.success = FALSE
                 /\ call.result.score = 0
                 /\ call.result.rank = "Tourist"
            ELSE /\ call.result.success = TRUE
                 /\ call.result.score = computed.finalScore
                 /\ call.result.rank = computed.rank

\* C28: in every reachable puzzle state revealedExpressions is a subset of
\* solvedExpressions, and an expression is in solvedExpressions but not in
\* revealedExpressions only if a successful makeGuess resolved it: it enters
\* that difference only in a step that is a successful makeGuess on a clue
\* with that expression whose solution the guess matches.
C28_SolvedNotRevealedOnlyByGuess ==
    /\ [](gameState.revealedExpressions \subseteq gameState.solvedExpressions)
    /\ [][ \A e \in (gameState'.solvedExpressions \ gameState'.revealedExpressions)
                      \ (gameState.solvedExpressions \ gameState.revealedExpressions) :
              /\ call'.op = "makeGuess"
              /\ call'.result.success
              /\ call'.pre = gameState
              /\ \E sp \in MatchingSpans(gameState.displayState, call'.guess) :
                    SpanExpression(gameState.displayState, sp) = e
         ]_vars

\* One clue was revealed and then another solved by a guess: the second is
\* in solvedExpressions only, the first in both sets.
C28_Witness ==
    /\ call.op = "makeGuess"
    /\ call.result.success
    /\ call.pre.revealedExpressions # {}
    /\ gameState.revealedExpressions # {}
    /\ gameState.solvedExpressions \ gameState.revealedExpressions # {}
    /\ call.pre.solvedExpressions \ call.pre.revealedExpressions = {}

\* C29: in the run driver every makeGuess call adds one to stats.guesses and
\* only a successful one adds one to stats.correctGuesses, no other call
\* changes either counter, so correctGuesses <= guesses always holds and the
\* wrong-guess count that is scored, guesses - correctGuesses, is the number
\* of failed makeGuess calls, those that failed because the target was not an
\* active clue included.
C29_GuessCounters ==
    /\ [](/\ stats.correctGuesses <= stats.guesses
          /\ calculateScore(gameState, stats).wrongGuessPenalty
                = 2 * (stats.guesses - stats.correctGuesses))
    /\ [][ IF call'.op = "makeGuess"
           THEN /\ stats'.guesses = stats.guesses + 1
                /\ stats'.correctGuesses =
                       stats.correctGuesses
                       + (IF call'.result.success THEN 1 ELSE 0)
           ELSE /\ stats'.guesses = stats.guesses
                /\ stats'.correctGuesses = stats.correctGuesses
         ]_vars

\* A guess at a clue that is not active failed, after a correct guess: two
\* guesses counted, one of them correct.
C29_Witness ==
    /\ call.op = "makeGuess"
    /\ ~call.result.success
    /\ call.expression \notin ActiveExpressions(call.pre.displayState)
    /\ IsMsgNoActive(call.result.message, call.expression)
    /\ stats.guesses = 2
    /\ stats.correctGuesses = 1
    /\ calculateScore(gameState, stats).wrongGuessPenalty = 2

\* C30 as claimed: once displayState contains no active clue the puzzle state
\* is absorbing: every later makeGuess, getHint or revealClue fails and
\* leaves the state unchanged, and the reported score of the completed run is
\* not changed by calls made after completion.
C30_NothingChangesAfterCompletion ==
    [][ (ActiveSpans(gameState.displayState) = {}) =>
            /\ ~call'.result.success
            /\ gameState' = gameState
            /\ RunResult(gameState', stats').score
                  = RunResult(gameState, stats).score
      ]_vars

\* C30: once displayState contains no active clue the puzzle state is
\* absorbing: every later makeGuess, getHint or revealClue fails and leaves
\* the puzzle state unchanged.  The reported score of the completed run is
\* unchanged by a later getHint or revealClue, and is lowered by 2 (down to 0
\* at least) by every later makeGuess, which is counted as a wrong guess.
C30_OnlyGuessesCostAfterCompletion ==
    [][ (ActiveSpans(gameState.displayState) = {}) =>
            /\ ~call'.result.success
            /\ gameState' = gameState
            /\ RunResult(gameState', stats').score =
                  (IF call'.op = "makeGuess"
                   THEN (IF RunResult(gameState, stats).score >= 2
                         THEN RunResult(gameState, stats).score - 2 ELSE 0)
                   ELSE RunResult(gameState, stats).score)
      ]_vars

\* A makeGuess issued after the puzzle was completed: it failed, the puzzle
\* state is as before, and the reported score went from 100 to 98.
C30_Witness ==
    /\ call.op = "makeGuess"
    /\ ActiveSpans(call.pre.displayState) = {}
    /\ ~call.result.success
    /\ gameState = call.pre
    /\ RunResult(call.pre, call.preStats).score = 100
    /\ RunResult(gameState, stats).score = 98

\* C26: in every interleaving of the queued runs, a run's puzzle state,
\* statistics and guess log change only in a step of that run; the result of
\* a run is built when it returns, from its own state, with its own guess log
\* in timestamp order; the result file of a run is that result, written by
\* that run, and never changes afterwards; and no step changes the puzzle
\* object the runs share.
C26_RunsDoNotInterfere ==
    [][ /\ puzzleData' = puzzleData
        /\ \A j \in BenchModels :
              /\ (runs'[j] # runs[j]) => (call'.job = j)
              /\ (call'.op = "finish" /\ call'.job = j) =>
                     LET written == runs'[j].data.result.modelGuesses
                         pushed == runs[j].modelGuesses
                     IN  /\ runs'[j].data = ResultData(j, puzzleData, runs[j])
                         /\ runs'[j].data.result.stats.guesses
                                = runs[j].stats.guesses
                         /\ Len(written) = Len(pushed)
                         /\ \A e \in Elements(pushed) : e \in Elements(written)
                         /\ \A i, k \in 1..Len(written) :
                                (i < k) =>
                                    written[i].timestamp <= written[k].timestamp
              /\ (j \in DOMAIN files) =>
                     (j \in DOMAIN files' /\ files'[j] = files[j])
              /\ (j \in DOMAIN files' /\ j \notin DOMAIN files) =>
                     /\ call'.job = j
                     /\ call'.op = "write"
                     /\ files'[j] = runs[j].data
      ]_vars

\* Both models were solving the same puzzle object at the same time and went
\* different ways.  m1 solved the clue with one guess and has returned; while
\* its result file is being written m2 goes on: it has two wrong guesses in
\* its log and the clue still in its document, and the last step was m2's.
C26_Witness ==
    /\ runs["m1"].status = "writing"
    /\ runs["m1"].data.result.success
    /\ runs["m1"].data.result.stats.guesses = 1
    /\ runs["m1"].data.result.stats.correctGuesses = 1
    /\ Len(runs["m1"].data.result.modelGuesses) = 1
    /\ runs["m2"].status = "running"
    /\ call.job = "m2"
    /\ call.op = "makeGuess"
    /\ runs["m2"].stats.guesses = 2
    /\ runs["m2"].stats.correctGuesses = 0
    /\ runs["m2"].gameState.displayState = puzzleData.initialPuzzle
    /\ Len(runs["m2"].modelGuesses) = 2

\* C27: a run that fails with an error is reported with console.error (and
\* only runs that failed are), no result file is written for it, and it is
\* never started again.  It gives its place in the queue back: failed runs
\* are not among the executing jobs, and whenever a job is waiting either a
\* job is executing or the queue can take a waiting job.  A result file
\* exists for exactly the runs whose write has completed.
C27_FailedRunIsReportedNotRetried ==
    /\ [](\A j \in BenchModels :
             /\ (j \in errors) <=> (runs[j].status = "failed")
             /\ (j \in DOMAIN files) <=> (runs[j].status = "done"))
    /\ [](Cardinality(RunningJobs) <= concurrency)
    /\ []((\E j \in BenchModels : runs[j].status = "queued")
              => \/ RunningJobs # {}
                 \/ \E j \in BenchModels : CanStart(j))
    /\ [][ \A j \in BenchModels :
              (runs[j].status = "failed") => (runs'[j] = runs[j]) ]_vars

\* With one job at a time: m1 failed and was reported, no file was written
\* for it, and m2, which could only start after it, has just written its
\* result file.
C27_Witness ==
    /\ concurrency = 1
    /\ runs["m1"].status = "failed"
    /\ "m1" \in errors
    /\ "m1" \notin DOMAIN files
    /\ call.op = "write"
    /\ call.job = "m2"
    /\ "m2" \in DOMAIN files
    /\ files["m2"].result.success

\* C34: calculateScore returns finalScore = 100 if and only if the number of
\* hinted expressions, the number of revealed expressions and the wrong-guess
\* count are all zero, and it returns the rank "Puppet Master" exactly then.
C34_PerfectScoreIffNoPenalty ==
    (call.op = "calculateScore") =>
        LET details == call.scoreDetails
            noPenalty ==
                /\ Cardinality(gameState.hintedExpressions) = 0
                /\ Cardinality(gameState.revealedExpressions) = 0
                /\ stats.guesses <= stats.correctGuesses
        IN  /\ (details.finalScore = 100) <=> noPenalty
            /\ (details.rank = "Puppet Master") <=> noPenalty

\* A score computed for a run with guesses, all of them correct, and no hint
\* or reveal: 100 and "Puppet Master".
C34_Witness ==
    /\ call.op = "calculateScore"
    /\ stats.guesses > 0
    /\ stats.guesses = stats.correctGuesses
    /\ gameState.hintedExpressions = {}
    /\ gameState.revealedExpressions = {}
    /\ call.scoreDetails.finalScore = 100
    /\ call.scoreDetails.rank = "Puppet Master"

\* C35 as claimed: in every run result scoreDetails.finalScore equals score
\* and scoreDetails.rank equals rank, for completed and for incomplete runs.
C35_ScoreDetailsAgree ==
    (call.op = "finish") =>
        /\ call.result.scoreDetails.finalScore = call.result.score
        /\ call.result.scoreDetails.rank = call.result.rank

\* C33 as claimed: in every reachable puzzle state solvedExpressions is a
\* subset of the Answer Key's expressions; the completion percentage of a run
\* result (solved expressions / totalClues * 100, kept as a fraction) is
\* between 0 and 100, and it is 100 whenever the result has success = true.
C33_SolvedWithinKeyAndPercentage ==
    /\ gameState.solvedExpressions \subseteq DOMAIN puzzleData.solutions
    /\ (call.op = "finish") =>
           LET percentage == call.result.stats.completionPercentage
           IN  /\ 0 <= percentage[1]
               /\ percentage[1] <= 100 * percentage[2]
               /\ call.result.success => (percentage[1] = 100 * percentage[2])

\* C32: in every reachable puzzle state the cached activeClues field is what
\* findActiveClues returns for the current displayState, and totalClues is
\* the number of Answer Key entries of the puzzle file that was loaded.
C32_CachedFieldsAreCurrent ==
    /\ gameState.activeClues = findActiveClues(gameState.displayState)
    /\ gameState.totalClues = Cardinality(DOMAIN puzzleData.solutions)

\* A successful makeGuess after which the cached list differs from the one
\* before: a clue that was nested around the solved one,
\* not active before, is in it.
C32_Witness ==
    /\ call.op = "makeGuess"
    /\ call.result.success
    /\ gameState.activeClues # call.pre.activeClues
    /\ \E i \in 1..Len(gameState.activeClues) :
          \A k \in 1..Len(call.pre.activeClues) :
              gameState.activeClues[i].expression
                  # call.pre.activeClues[k].expression
    /\ gameState.totalClues = 2

\* What a callback does when it is executed by itself, from its first
\* statement to its return, on the shared variables `shared`.
CallbackAlone(shared, toolCall, puzzle) ==
    LET result ==
            CASE toolCall.op = "makeGuess" ->
                   makeGuess(toolCall.clue, toolCall.guess, shared.gameState, puzzle)
              [] toolCall.op = "getHint" ->
                   getHint(toolCall.clue, shared.gameState, puzzle)
              [] toolCall.op = "revealClue" ->
                   revealClue(toolCall.clue, shared.gameState, puzzle)
        last == ActiveSpans(result.gameState.displayState) = {}
        guessed == [shared.stats EXCEPT !.guesses = @ + 1]
    IN  CASE toolCall.op = "makeGuess" /\ result.success ->
               [shared EXCEPT
                   !.gameState = result.gameState,
                   !.stats = [guessed EXCEPT !.correctGuesses = @ + 1],
                   !.completedPuzzle = IF last THEN TRUE ELSE @]
          [] toolCall.op = "makeGuess" /\ ~result.success ->
               [shared EXCEPT !.gameState = result.gameState, !.stats = guessed]
          [] toolCall.op = "getHint" /\ result.success ->
               [shared EXCEPT !.gameState = result.gameState,
                              !.stats.hints = @ + 1]
          [] toolCall.op = "revealClue" /\ result.success ->
               [shared EXCEPT !.gameState = result.gameState,
                              !.stats.reveals = @ + 1,
                              !.completedPuzzle = IF last THEN TRUE ELSE @]
          [] OTHER -> shared

\* The orders in which n callbacks can be executed one after another.
Orders(n) ==
    { order \in [1..n -> 1..n] :
          \A i, k \in 1..n : order[i] = order[k] => i = k }

\* The shared variables after the callbacks of the tool calls `frames` have
\* been executed one after another in the order `order`, from its k-th on.
RECURSIVE OneAfterAnother(_, _, _, _, _)
OneAfterAnother(shared, frames, order, k, puzzle) ==
    IF k > Len(order) THEN shared
    ELSE OneAfterAnother(CallbackAlone(shared, frames[order[k]], puzzle),
                         frames, order, k + 1, puzzle)

\* The number of the step's tool calls of kind op, all or the successful ones.
CountCalls(op, successfulOnly) ==
    Cardinality({ i \in DOMAIN toolCalls.frames :
                    /\ toolCalls.frames[i].op = op
                    /\ successfulOnly => toolCalls.frames[i].result.success })

\* C31: when the callbacks of the tool calls issued together in one step
\* have all returned, the shared gameState, counters and completedPuzzle are
\* what executing those callbacks one after another, in some order, from the
\* state at the start of the step gives; and no update is lost: every
\* makeGuess call is in stats.guesses, every successful call is in its
\* counter, and the expressions in the state a successful callback wrote
\* are in the sets of the final gameState.
C31_ConcurrentCallsTakeEffectInSomeOrder ==
    AllReturned =>
        LET frames == toolCalls.frames
            start == toolCalls.start
        IN  /\ \E order \in Orders(Len(frames)) :
                   OneAfterAnother(start, frames, order, 1, puzzleData) = Shared
            /\ stats.guesses =
                   start.stats.guesses + CountCalls("makeGuess", FALSE)
            /\ stats.correctGuesses =
                   start.stats.correctGuesses + CountCalls("makeGuess", TRUE)
            /\ stats.hints = start.stats.hints + CountCalls("getHint", TRUE)
            /\ stats.reveals = start.stats.reveals + CountCalls("revealClue", TRUE)
            /\ \A i \in DOMAIN frames :
                   frames[i].result.success =>
                       LET written == frames[i].result.gameState
                       IN  /\ written.solvedExpressions
                                  \subseteq gameState.solvedExpressions
                           /\ written.hintedExpressions
                                  \subseteq gameState.hintedExpressions
                           /\ written.revealedExpressions
                                  \subseteq gameState.revealedExpressions

\* Two tool calls were issued together and both callbacks have returned
\* with success, the second call's callback first: the guess of the first
\* call was computed on the state the reveal of the second call had written,
\* and both updates are in the state.
C31_Witness ==
    /\ AllReturned
    /\ Len(toolCalls.frames) = 2
    /\ toolCalls.frames[1].op = "makeGuess"
    /\ toolCalls.frames[1].result.success
    /\ toolCalls.frames[2].op = "revealClue"
    /\ toolCalls.frames[2].result.success
    /\ toolCalls.frames[2].clue
           \in toolCalls.frames[1].result.gameState.revealedExpressions
    /\ toolCalls.frames[1].clue \notin toolCalls.frames[2].result.gameState.solvedExpressions
    /\ stats.guesses = 1
    /\ stats.correctGuesses = 1
    /\ stats.reveals = 1
    /\ Cardinality(gameState.solvedExpressions) = 2
    /\ gameState.revealedExpressions = {toolCalls.frames[2].clue}
    /\ completedPuzzle

\* Runs on ordinary puzzle files.
Spec == Init /\ [][Next]_vars

\* Runs that also load the puzzle files with an inherited name as clue text.
SpecInherited == InitInherited /\ [][Next]_vars

\* Whole runs on ordinary puzzle files.
SpecRun == Init /\ [][NextRun]_vars

\* Whole runs, also on the puzzle file with an empty bracket pair.
SpecRunEmptyPair == InitEmptyPair /\ [][NextRun]_vars

\* Runs on the nested-clue example document.
SpecExample == InitExample /\ [][NextExample]_vars

\* calculateScore applied to every combination of counts up to the bound.
SpecScore == InitScore /\ [][NextScore]_vars

\* calculateRank applied as calculateScore applies it, to every combination
\* of counts up to the bound.
SpecRank == InitRank /\ [][NextRank]_vars

\* The parsers applied to every document of the bounded set.
SpecParse == InitParse /\ [][NextParse]_vars

\* Whole runs that also load the puzzle files with an inherited name as
\* clue text.
SpecRunInherited == InitInherited /\ [][NextRun]_vars

\* One run whose model issues several tool calls in one response.
SpecToolCalls == InitToolCalls /\ [][NextToolCalls]_vars

\* The benchmark driver: the queued jobs of one puzzle date.
SpecBench == InitBench /\ [][NextBench]_vars

====
